---- MODULE Spec2Model ----
(***************************************************************************)
(* Routing and fallback-response engine of the agent orchestrator          *)
(* (backend/agents/enhanced_orchestrator.py).                              *)
(*                                                                         *)
(* Python strings are sequences of one-character strings, so that          *)
(* str.lower(), the substring test (in) and slicing are computed and not   *)
(* assumed.  A Python value is a record [kind, s]: kind "str" carries the  *)
(* characters in s, kind "none" is None and kind "int" is a non-string,    *)
(* truthy object (the integer 5).                                          *)
(***************************************************************************)
EXTENDS Integers, Sequences, FiniteSets, TLC

\* entry holds the statuses as they were when the caller made its call; writer
\* holds, for each agent, the caller that wrote its status field and the caller
\* that wrote its registry entry last
VARIABLES apiKey, model, processing_status, agent_status, backend, call, result,
          frame, db, now, posted, threads, writer, entry

vars == <<apiKey, model, processing_status, agent_status, backend, call, result,
          frame, db, now, posted, threads, writer, entry>>

\* the state of the HTTP service: the tables of the store, the time of the last
\* POST and, for each session id, the exchanges stored under it since that id
\* was last deleted, each with the route that stored it
service == <<db, now, posted>>

\* the calls of concurrent callers, each at its statement
concurrent == <<threads, writer>>

\* the position of a call that runs step by step, the state of the HTTP service
\* and the concurrent callers: left alone by the calls of the orchestrator that
\* run in one step
elsewhere == <<frame, db, now, posted, threads, writer>>

(* ------------------------------ bounds -------------------------------- *)

\* exchanges the HTTP service stores in one behaviour
MaxPosts == 2

\* words per request text in the routing specification
MaxWords == 2

(* --------------------------- Python values ---------------------------- *)

Str(s) == [kind |-> "str", s |-> s]

None == [kind |-> "none", s |-> <<>>]

Int5 == [kind |-> "int", s |-> <<>>]

IsStr(v) == v.kind = "str"

\* bool(v): None and "" are falsy, a non-empty string and a non-zero int truthy
Truthy(v) == \/ v.kind = "int"
             \/ v.kind = "str" /\ v.s # <<>>

UpperChars == <<"A","B","C","D","E","F","G","H","I","J","K","L","M","N","O","P","Q","R","S","T","U","V","W","X","Y","Z">>

LowerChars == <<"a","b","c","d","e","f","g","h","i","j","k","l","m","n","o","p","q","r","s","t","u","v","w","x","y","z">>

LowerChar(c) ==
    IF \E i \in 1..Len(UpperChars) : UpperChars[i] = c
    THEN LowerChars[CHOOSE i \in 1..Len(UpperChars) : UpperChars[i] = c]
    ELSE c

\* str.lower()
Lower(s) == [i \in 1..Len(s) |-> LowerChar(s[i])]

\* sub in s
Contains(sub, s) ==
    \E i \in 1..(Len(s) - Len(sub) + 1) : SubSeq(s, i, i + Len(sub) - 1) = sub

\* any(k in s for k in keys)
AnyIn(keys, s) == \E j \in 1..Len(keys) : Contains(keys[j], s)

(* ----------------------------- the agents ----------------------------- *)

\* keys of EnhancedGeminiOrchestrator.agents, in construction order
AgentKeys == <<"nlp", "code", "data">>

Agents == {AgentKeys[i] : i \in 1..Len(AgentKeys)}

\* EnhancedGeminiAgent.name of the agent built under each key
AgentName(key) ==
    CASE key = "nlp" -> "nlp_agent"
      [] key = "code" -> "code_agent"
      [] key = "data" -> "data_agent"

FileIndicators(name) ==
    CASE name = "data_agent" ->
           << <<"c","s","v">>, <<"j","s","o","n">>, <<"d","a","t","a">>, <<"d","a","t","a","s","e","t">>, <<"a","n","a","l","y","s","i","s">>, <<"s","t","a","t","i","s","t","i","c","s">>, <<"c","h","a","r","t">> >>
      [] name = "code_agent" ->
           << <<"c","o","d","e">>, <<"f","u","n","c","t","i","o","n">>, <<"c","l","a","s","s">>, <<"a","l","g","o","r","i","t","h","m">>, <<"p","r","o","g","r","a","m","m","i","n","g">>, <<"s","c","r","i","p","t">> >>
      [] name = "nlp_agent" ->
           << <<"t","e","x","t">>, <<"d","o","c","u","m","e","n","t">>, <<"a","n","a","l","y","z","e">>, <<"s","e","n","t","i","m","e","n","t">>, <<"s","u","m","m","a","r","i","z","e">>, <<"c","o","n","t","e","n","t">> >>
      [] OTHER -> << >>

GateKeywords(name) ==
    CASE name = "nlp_agent" ->
           << <<"a","n","a","l","y","z","e">>, <<"s","e","n","t","i","m","e","n","t">>, <<"s","u","m","m","a","r","i","z","e">>, <<"t","e","x","t">>, <<"l","a","n","g","u","a","g","e">>,
              <<"m","e","a","n","i","n","g">>, <<"t","r","a","n","s","l","a","t","e">>, <<"c","o","n","t","e","n","t">>, <<"d","o","c","u","m","e","n","t">> >>
      [] name = "code_agent" ->
           << <<"c","o","d","e">>, <<"p","y","t","h","o","n">>, <<"j","a","v","a","s","c","r","i","p","t">>, <<"f","u","n","c","t","i","o","n">>, <<"p","r","o","g","r","a","m","m","i","n","g">>,
              <<"d","e","b","u","g">>, <<"w","r","i","t","e">>, <<"a","l","g","o","r","i","t","h","m">>, <<"s","c","r","i","p","t">> >>
      [] name = "data_agent" ->
           << <<"d","a","t","a">>, <<"a","n","a","l","y","s","i","s">>, <<"s","t","a","t","i","s","t","i","c","s">>, <<"c","h","a","r","t">>, <<"v","i","s","u","a","l","i","z","a","t","i","o","n">>,
              <<"c","s","v">>, <<"d","a","t","a","s","e","t">>, <<"g","r","a","p","h">> >>
      [] OTHER -> << >>

\* can_handle with the keyword list of the nlp agent used for every agent
can_handle_nlp_list(name, task, file_content) ==
    AnyIn(GateKeywords("nlp_agent"), Lower(task.s))

\* EnhancedGeminiAgent.can_handle(task, file_content), task a string
can_handle(name, task, file_content) ==
    LET task_lower == Lower(task.s)
    IN  IF Truthy(file_content) /\ name \in {"data_agent", "code_agent", "nlp_agent"}
        THEN AnyIn(FileIndicators(name), task_lower)
        ELSE AnyIn(GateKeywords(name), task_lower)

(* ------------------------------ scoring ------------------------------- *)

(***************************************************************************)
(* The scores are IEEE-754 doubles.  A double x that arises here is kept   *)
(* exactly as the pair [k, q] with x = (k * M + q) * 2^-56, where          *)
(* M = (2^56 - 6) / 10 = 7205759403792793: the literals are                *)
(* 0.1 = (M + 1) * 2^-56, 0.2 = (2M + 2) * 2^-56, 0.3 = (3M + 1) * 2^-56.  *)
(* An addition is the exact sum rounded to the nearest multiple of the     *)
(* unit in the last place of its binade, ties to even; M mod 64 = 25       *)
(* gives the remainders.  k stays below 41 (the largest score is 3.1).     *)
(***************************************************************************)
FZero == [k |-> 0, q |-> 0]

F01 == [k |-> 1, q |-> 1]

F02 == [k |-> 2, q |-> 2]

F03 == [k |-> 3, q |-> 1]

\* unit in the last place, in units of 2^-56, of the binade of k*M + q
Ulp(k, q) ==
    IF k <= 1 THEN 1
    ELSE IF k = 2 THEN 2
    ELSE IF k < 5 \/ (k = 5 /\ q < 3) THEN 4
    ELSE IF k < 10 \/ (k = 10 /\ q < 6) THEN 8
    ELSE IF k < 20 \/ (k = 20 /\ q < 12) THEN 16
    ELSE 32

\* a + b in double arithmetic
FAdd(a, b) ==
    LET k == a.k + b.k
        q == a.q + b.q
        u == Ulp(k, q)
        r == (25 * k + q) % u
        r2 == (25 * k + q) % (2 * u)
        down == [k |-> k, q |-> q - r]
        up == [k |-> k, q |-> q + (u - r)]
    IN  IF r = 0 THEN [k |-> k, q |-> q]
        ELSE IF 2 * r < u THEN down
        ELSE IF 2 * r > u THEN up
        ELSE IF r2 = r THEN down
        ELSE up

\* a < b on doubles
FLess(a, b) == a.k < b.k \/ (a.k = b.k /\ a.q < b.q)

ScoreKeywords(agent_name) ==
    CASE agent_name = "nlp" ->
           [high |-> << <<"s","e","n","t","i","m","e","n","t">>, <<"a","n","a","l","y","z","e">>, <<"s","u","m","m","a","r","i","z","e">>, <<"t","e","x","t">>, <<"c","o","n","t","e","n","t">>, <<"d","o","c","u","m","e","n","t">> >>,
            medium |-> << <<"l","a","n","g","u","a","g","e">>, <<"m","e","a","n","i","n","g">>, <<"r","e","v","i","e","w">>, <<"t","r","a","n","s","l","a","t","e">>, <<"w","r","i","t","i","n","g">> >>,
            low |-> << <<"r","e","a","d">>, <<"u","n","d","e","r","s","t","a","n","d">>, <<"e","x","p","l","a","i","n">> >>]
      [] agent_name = "code" ->
           [high |-> << <<"c","o","d","e">>, <<"f","u","n","c","t","i","o","n">>, <<"p","r","o","g","r","a","m","m","i","n","g">>, <<"d","e","b","u","g">>, <<"a","l","g","o","r","i","t","h","m">> >>,
            medium |-> << <<"p","y","t","h","o","n">>, <<"j","a","v","a","s","c","r","i","p","t">>, <<"w","r","i","t","e">>, <<"c","r","e","a","t","e">>, <<"d","e","v","e","l","o","p">> >>,
            low |-> << <<"s","c","r","i","p","t">>, <<"p","r","o","g","r","a","m">>, <<"s","o","f","t","w","a","r","e">> >>]
      [] agent_name = "data" ->
           [high |-> << <<"d","a","t","a">>, <<"a","n","a","l","y","s","i","s">>, <<"s","t","a","t","i","s","t","i","c","s">>, <<"v","i","s","u","a","l","i","z","a","t","i","o","n">>, <<"c","h","a","r","t">> >>,
            medium |-> << <<"d","a","t","a","s","e","t">>, <<"g","r","a","p","h">>, <<"p","l","o","t">>, <<"c","s","v">>, <<"n","u","m","b","e","r","s">> >>,
            low |-> << <<"i","n","f","o","r","m","a","t","i","o","n">>, <<"c","a","l","c","u","l","a","t","e">>, <<"m","a","t","h">> >>]

\* for word in words: if word in user_lower: base_score += weight
RECURSIVE AddTier(_, _, _, _, _)
AddTier(words, i, weight, user_lower, base_score) ==
    IF i > Len(words) THEN base_score
    ELSE AddTier(words, i + 1, weight, user_lower,
                 IF Contains(words[i], user_lower)
                 THEN FAdd(base_score, weight)
                 ELSE base_score)

\* 1.0 as a double
F10 == [k |-> 10, q |-> 6]

\* the tiers added as in _calculate_enhanced_score
TierScore(user_input, agent_name) ==
    AddTier(ScoreKeywords(agent_name).low, 1, F01, Lower(user_input.s),
            AddTier(ScoreKeywords(agent_name).medium, 1, F02, Lower(user_input.s),
                    AddTier(ScoreKeywords(agent_name).high, 1, F03, Lower(user_input.s),
                            FZero)))

\* _calculate_enhanced_score with the sum capped at 1.0
calculate_enhanced_score_capped(user_input, agent_name) ==
    IF agent_name \notin {"nlp", "code", "data"} THEN FZero
    ELSE IF FLess(F10, TierScore(user_input, agent_name)) THEN F10
    ELSE TierScore(user_input, agent_name)

\* EnhancedGeminiOrchestrator._calculate_enhanced_score(user_input, agent_name)
calculate_enhanced_score(user_input, agent_name) ==
    IF agent_name \notin {"nlp", "code", "data"} THEN FZero
    ELSE
    LET user_lower == Lower(user_input.s)
        keywords == ScoreKeywords(agent_name)
        h == AddTier(keywords.high, 1, F03, user_lower, FZero)
        m == AddTier(keywords.medium, 1, F02, user_lower, h)
    IN  AddTier(keywords.low, 1, F01, user_lower, m)

(* ------------------------------ routing ------------------------------- *)

DataPatterns == << <<",">>, <<"c","s","v">>, <<"j","s","o","n">>, <<"d","a","t","a">>, <<"d","a","t","a","s","e","t">> >>

AnalysisKeywords == << <<"a","n","a","l","y","z","e">>, <<"d","a","t","a">>, <<"s","t","a","t","i","s","t","i","c","s">>, <<"c","h","a","r","t">>, <<"v","i","s","u","a","l","i","z","a","t","i","o","n">> >>

CodePatterns == << <<"d","e","f"," ">>, <<"f","u","n","c","t","i","o","n">>, <<"c","l","a","s","s"," ">>, <<"i","m","p","o","r","t">>, <<"f","r","o","m"," ">> >>

Returned(v) == [exc |-> "", val |-> v]

Raised(e) == [exc |-> e, val |-> ""]

\* every agent is scored, the gate is skipped
Candidates_ungated(user_input, file_content) == AgentKeys

\* the agents that pass can_handle, in the order of self.agents
Candidates(user_input, file_content) ==
    SelectSeq(AgentKeys, LAMBDA a : can_handle(AgentName(a), user_input, file_content))

\* max that returns the last item of maximal score
RECURSIVE MaxScore_last(_, _, _, _)
MaxScore_last(cands, i, best, user_input) ==
    IF i > Len(cands) THEN best
    ELSE MaxScore_last(cands, i + 1,
                       IF FLess(calculate_enhanced_score(user_input, cands[i]),
                                calculate_enhanced_score(user_input, best))
                       THEN best ELSE cands[i],
                       user_input)

\* max(scores.items(), key=lambda x: x[1])[0]: the first item of maximal score
RECURSIVE MaxScore(_, _, _, _)
MaxScore(cands, i, best, user_input) ==
    IF i > Len(cands) THEN best
    ELSE MaxScore(cands, i + 1,
                  IF FLess(calculate_enhanced_score(user_input, best),
                           calculate_enhanced_score(user_input, cands[i]))
                  THEN cands[i] ELSE best,
                  user_input)

\* _route_request without the default of the empty candidate set
route_request_no_default(user_input, file_content) ==
    IF ~IsStr(user_input) THEN Raised("AttributeError")
    ELSE IF Truthy(file_content)
    THEN IF ~IsStr(file_content) THEN Raised("AttributeError")
         ELSE IF AnyIn(DataPatterns, Lower(file_content.s)) /\ AnyIn(AnalysisKeywords, Lower(user_input.s))
              THEN Returned("data")
              ELSE IF AnyIn(CodePatterns, Lower(file_content.s))
              THEN Returned("code")
              ELSE Returned("nlp")
    ELSE IF Candidates(user_input, file_content) # << >>
         THEN Returned(MaxScore(Candidates(user_input, file_content), 2,
                                Candidates(user_input, file_content)[1], user_input))
         ELSE Raised("ValueError")

\* _route_request with the code-structure test of the excerpt made first
route_request_code_first(user_input, file_content) ==
    IF ~IsStr(user_input) THEN Raised("AttributeError")
    ELSE IF Truthy(file_content)
    THEN IF ~IsStr(file_content) THEN Raised("AttributeError")
         ELSE IF AnyIn(CodePatterns, Lower(file_content.s))
              THEN Returned("code")
              ELSE IF AnyIn(DataPatterns, Lower(file_content.s)) /\ AnyIn(AnalysisKeywords, Lower(user_input.s))
              THEN Returned("data")
              ELSE Returned("nlp")
    ELSE IF Candidates(user_input, file_content) # << >>
         THEN Returned(MaxScore(Candidates(user_input, file_content), 2,
                                Candidates(user_input, file_content)[1], user_input))
         ELSE Returned("nlp")

\* _route_request that scores the request text also when an excerpt is supplied
route_request_scores_first(user_input, file_content) ==
    IF ~IsStr(user_input) THEN Raised("AttributeError")
    ELSE IF Candidates(user_input, None) # << >>
    THEN Returned(MaxScore(Candidates(user_input, None), 2, Candidates(user_input, None)[1], user_input))
    ELSE IF Truthy(file_content)
    THEN IF ~IsStr(file_content) THEN Raised("AttributeError")
         ELSE IF AnyIn(DataPatterns, Lower(file_content.s)) /\ AnyIn(AnalysisKeywords, Lower(user_input.s))
              THEN Returned("data")
              ELSE IF AnyIn(CodePatterns, Lower(file_content.s))
              THEN Returned("code")
              ELSE Returned("nlp")
    ELSE Returned("nlp")

\* _route_request that rejects a request text with nothing but blanks
route_request_rejects_blank(user_input, file_content) ==
    IF ~IsStr(user_input) THEN Raised("AttributeError")
    ELSE IF \A i \in 1..Len(user_input.s) : user_input.s[i] = " " THEN Raised("ValueError")
    ELSE IF Truthy(file_content)
    THEN IF ~IsStr(file_content) THEN Raised("AttributeError")
         ELSE LET user_lower == Lower(user_input.s)
                  content_lower == Lower(file_content.s)
              IN  IF AnyIn(DataPatterns, content_lower) /\ AnyIn(AnalysisKeywords, user_lower)
                  THEN Returned("data")
                  ELSE IF AnyIn(CodePatterns, content_lower)
                  THEN Returned("code")
                  ELSE Returned("nlp")
    ELSE LET scores == Candidates(user_input, file_content)
         IN  IF scores # << >>
             THEN Returned(MaxScore(scores, 2, scores[1], user_input))
             ELSE Returned("nlp")

\* EnhancedGeminiOrchestrator._route_request(user_input, file_content)
route_request(user_input, file_content) ==
    IF ~IsStr(user_input) THEN Raised("AttributeError")
    ELSE IF Truthy(file_content)
    THEN IF ~IsStr(file_content) THEN Raised("AttributeError")
         ELSE LET user_lower == Lower(user_input.s)
                  content_lower == Lower(file_content.s)
              IN  IF AnyIn(DataPatterns, content_lower) /\ AnyIn(AnalysisKeywords, user_lower)
                  THEN Returned("data")
                  ELSE IF AnyIn(CodePatterns, content_lower)
                  THEN Returned("code")
                  ELSE Returned("nlp")
    ELSE LET scores == Candidates(user_input, file_content)
         IN  IF scores # << >>
             THEN Returned(MaxScore(scores, 2, scores[1], user_input))
             ELSE Returned("nlp")

(* ------------------------- response composer -------------------------- *)

(***************************************************************************)
(* A response text is a sequence whose elements are the characters taken   *)
(* from the request or the file and, for each literal piece of a template, *)
(* one element that stands for that piece.                                 *)
(***************************************************************************)

\* file_content[:500] in _file_based_fallback
PreviewLimit == 500

\* file_content[:2000] in process and _generate_gemini_response
ContextLimit == 2000

\* a slice that keeps the whole string
Take_whole(s, n) == s

\* s[:n]
Take(s, n) == SubSeq(s, 1, IF Len(s) < n THEN Len(s) ELSE n)

\* EnhancedGeminiAgent._file_based_fallback(user_input, file_content)
file_based_fallback(name, user_input, file_content) ==
    IF Truthy(file_content) /\ ~IsStr(file_content) THEN Raised("TypeError")
    ELSE
    LET content_preview == IF Truthy(file_content) THEN Take(file_content.s, PreviewLimit) ELSE << >>
    IN  IF name = "nlp_agent"
        THEN Returned(<<"## Document Analysis: File Content Preview">> \o content_preview
                      \o <<"... Analysis Capabilities">>)
        ELSE IF name = "code_agent"
        THEN Returned(<<"## Code Analysis: File Content Preview">> \o content_preview
                      \o <<"... Code Analysis Capabilities">>)
        ELSE Returned(<<"## Data Analysis: File Content Preview">> \o content_preview
                      \o <<"... Data Analysis Capabilities">>)

positive_words ==
    << <<"l","o","v","e">>, <<"g","r","e","a","t">>, <<"a","w","e","s","o","m","e">>, <<"a","m","a","z","i","n","g">>, <<"e","x","c","e","l","l","e","n","t">>, <<"f","a","n","t","a","s","t","i","c">>,
       <<"w","o","n","d","e","r","f","u","l">>, <<"g","o","o","d">>, <<"h","a","p","p","y">>, <<"p","e","r","f","e","c","t">>, <<"b","e","s","t">> >>

negative_words ==
    << <<"h","a","t","e">>, <<"b","a","d">>, <<"t","e","r","r","i","b","l","e">>, <<"a","w","f","u","l">>, <<"h","o","r","r","i","b","l","e">>, <<"d","i","s","g","u","s","t","i","n","g">>,
       <<"w","o","r","s","t">>, <<"d","i","s","l","i","k","e">>, <<"a","n","g","r","y">>, <<"d","i","s","a","p","p","o","i","n","t","e","d">>, <<"p","o","o","r">> >>

\* [word for word in words if word in text_lower]
Matched(words, text_lower) == SelectSeq(words, LAMBDA w : Contains(w, text_lower))

\* positions of the double quotes of s
QuoteAt(s) == {i \in 1..Len(s) : s[i] = "\""}

Min(S) == CHOOSE x \in S : \A y \in S : x <= y

\* the characters [:\s] of the pattern; request texts hold no tab or newline
IsSep(c) == c \in {":", " "}

\* length of the run of [:\s] characters of s that starts at position i
RECURSIVE SepRun(_, _)
SepRun(s, i) == IF i <= Len(s) /\ IsSep(s[i]) THEN 1 + SepRun(s, i + 1) ELSE 0

\* end of a match of (?:text|sentiment) at position p, ignoring case; 0 if none
KeywordEnd(s, p) ==
    LET low == Lower(s)
    IN  IF p + 3 <= Len(s) /\ SubSeq(low, p, p + 3) = <<"t","e","x","t">> THEN p + 3
        ELSE IF p + 8 <= Len(s) /\ SubSeq(low, p, p + 8) = <<"s","e","n","t","i","m","e","n","t">> THEN p + 8
        ELSE 0

\* start of group(1) of (?:text|sentiment)[:\s]+(.+) matched at position p; 0 if
\* the pattern does not match there.  [:\s]+ is greedy and gives one character
\* back to (.+) when the run reaches the end of the string.
GroupStart(s, p) ==
    LET e == KeywordEnd(s, p)
        n == SepRun(s, e + 1)
    IN  IF e = 0 \/ n = 0 THEN 0
        ELSE IF e + n < Len(s) THEN e + n + 1
        ELSE IF n >= 2 THEN e + n
        ELSE 0

\* str.strip()
RECURSIVE LStrip(_)
LStrip(s) == IF s # << >> /\ Head(s) = " " THEN LStrip(Tail(s)) ELSE s

RECURSIVE RStrip(_)
RStrip(s) == IF s # << >> /\ s[Len(s)] = " " THEN RStrip(SubSeq(s, 1, Len(s) - 1)) ELSE s

Strip(s) == RStrip(LStrip(s))

\* the target text when the text / sentiment pattern is tried before the quotes
text_to_analyze_pattern_first(s) ==
    LET quotes == QuoteAt(s)
        starts == {p \in 1..Len(s) : GroupStart(s, p) # 0}
    IN  IF starts # {}
        THEN Strip(SubSeq(s, GroupStart(s, Min(starts)), Len(s)))
        ELSE IF Cardinality(quotes) >= 2
        THEN LET q1 == Min(quotes)
                 q2 == Min(quotes \ {q1})
             IN  SubSeq(s, q1 + 1, q2 - 1)
        ELSE s

\* the text the sentiment report analyses: quoted_text[0] of
\* re.findall(r'"([^"]*)"', user_input), else group(1).strip() of the leftmost
\* match of the text/sentiment pattern, else the whole request
text_to_analyze(s) ==
    LET quotes == QuoteAt(s)
        starts == {p \in 1..Len(s) : GroupStart(s, p) # 0}
    IN  IF Cardinality(quotes) >= 2
        THEN LET q1 == Min(quotes)
                 q2 == Min(quotes \ {q1})
             IN  SubSeq(s, q1 + 1, q2 - 1)
        ELSE IF starts # {}
        THEN Strip(SubSeq(s, GroupStart(s, Min(starts)), Len(s)))
        ELSE s

\* the classification when equal counts are read as Positive
sentiment_of_ties_positive(s) ==
    LET target == text_to_analyze(s)
        text_lower == Lower(target)
        pos == Matched(positive_words, text_lower)
        neg == Matched(negative_words, text_lower)
        positive_count == Len(pos)
        negative_count == Len(neg)
    IN  IF negative_count > positive_count
        THEN [text |-> target, sentiment |-> "Negative",
              confidence |-> IF negative_count > 1 THEN "High" ELSE "Moderate",
              indicators |-> neg]
        ELSE [text |-> target, sentiment |-> "Positive",
              confidence |-> IF positive_count > 1 THEN "High" ELSE "Moderate",
              indicators |-> pos]

\* the label, confidence and indicators of _analyze_sentiment_with_formatting
sentiment_of(s) ==
    LET target == text_to_analyze(s)
        text_lower == Lower(target)
        pos == Matched(positive_words, text_lower)
        neg == Matched(negative_words, text_lower)
        positive_count == Len(pos)
        negative_count == Len(neg)
    IN  IF negative_count > positive_count
        THEN [text |-> target, sentiment |-> "Negative",
              confidence |-> IF negative_count > 1 THEN "High" ELSE "Moderate",
              indicators |-> neg]
        ELSE IF positive_count > negative_count
        THEN [text |-> target, sentiment |-> "Positive",
              confidence |-> IF positive_count > 1 THEN "High" ELSE "Moderate",
              indicators |-> pos]
        ELSE [text |-> target, sentiment |-> "Neutral",
              confidence |-> "Moderate", indicators |-> << >>]

\* ', '.join(words)
RECURSIVE Join(_)
Join(words) ==
    IF words = << >> THEN << >>
    ELSE IF Len(words) = 1 THEN words[1]
    ELSE words[1] \o <<","," ">> \o Join(Tail(words))

\* EnhancedGeminiAgent._get_sentiment_explanation(sentiment, indicators, text)
get_sentiment_explanation(sentiment, indicators) ==
    IF sentiment = "Positive"
    THEN <<"The text expresses positive sentiment through words like '">>
         \o Join(Take(indicators, 3)) \o <<"'. This suggests satisfaction">>
    ELSE IF sentiment = "Negative"
    THEN <<"The text shows negative sentiment with words like '">>
         \o Join(Take(indicators, 3)) \o <<"'. This indicates dissatisfaction">>
    ELSE <<"The text appears neutral">>

\* EnhancedGeminiAgent._analyze_sentiment_with_formatting(user_input)
analyze_sentiment_with_formatting(user_input) ==
    LET a == sentiment_of(user_input.s)
    IN  <<"## Sentiment Analysis Results: Text Analyzed">> \o a.text
        \o <<"Overall Sentiment", a.sentiment, "Confidence Level", a.confidence, "Key Indicators">>
        \o (IF a.indicators # << >> THEN Join(a.indicators) ELSE <<"Neutral language patterns">>)
        \o <<"Detailed Insights">> \o get_sentiment_explanation(a.sentiment, a.indicators)
        \o <<"For more advanced sentiment analysis">>

\* _nlp_enhanced_fallback that reads the first character of the request
nlp_enhanced_fallback_first_char(user_input) ==
    IF ~IsStr(user_input) THEN Raised("AttributeError")
    ELSE IF user_input.s = << >> THEN Raised("IndexError")
    ELSE IF Contains(<<"s","e","n","t","i","m","e","n","t">>, Lower(user_input.s))
    THEN Returned(analyze_sentiment_with_formatting(user_input))
    ELSE Returned(<<"## Natural Language Processing Assistant">>)

\* _nlp_enhanced_fallback that looks for 'sentiment' in the request as written
nlp_enhanced_fallback_as_written(user_input) ==
    IF ~IsStr(user_input) THEN Raised("AttributeError")
    ELSE IF Contains(<<"s","e","n","t","i","m","e","n","t">>, user_input.s)
    THEN Returned(analyze_sentiment_with_formatting(user_input))
    ELSE Returned(<<"## Natural Language Processing Assistant">>)

\* EnhancedGeminiAgent._nlp_enhanced_fallback(user_input)
nlp_enhanced_fallback(user_input) ==
    IF ~IsStr(user_input) THEN Raised("AttributeError")
    ELSE IF Contains(<<"s","e","n","t","i","m","e","n","t">>, Lower(user_input.s))
    THEN Returned(analyze_sentiment_with_formatting(user_input))
    ELSE Returned(<<"## Natural Language Processing Assistant">>)

Languages == << <<"p","y","t","h","o","n">>, <<"j","a","v","a","s","c","r","i","p","t">>, <<"j","a","v","a">>, <<"c","p","p">>, <<"c","+","+">> >>

\* EnhancedGeminiAgent._generate_code_example(user_input)
generate_code_example(user_input) ==
    IF Contains(<<"p","y","t","h","o","n">>, Lower(user_input.s)) /\ Contains(<<"f","u","n","c","t","i","o","n">>, Lower(user_input.s))
    THEN <<"## Python Function Example">>
    ELSE <<"I can help you generate code! Please specify the programming language and what you'd like to create.">>

\* EnhancedGeminiAgent._code_enhanced_fallback(user_input)
code_enhanced_fallback(user_input) ==
    IF ~IsStr(user_input) THEN Raised("AttributeError")
    ELSE IF AnyIn(Languages, Lower(user_input.s))
    THEN Returned(generate_code_example(user_input))
    ELSE Returned(<<"## Programming Assistant">>)

\* EnhancedGeminiAgent._data_enhanced_fallback(user_input)
data_enhanced_fallback(user_input) == Returned(<<"## Data Science Assistant">>)

\* EnhancedGeminiAgent._enhanced_fallback_response(user_input, file_content)
enhanced_fallback_response(name, user_input, file_content) ==
    IF Truthy(file_content) THEN file_based_fallback(name, user_input, file_content)
    ELSE IF name = "nlp_agent" THEN nlp_enhanced_fallback(user_input)
    ELSE IF name = "code_agent" THEN code_enhanced_fallback(user_input)
    ELSE IF name = "data_agent" THEN data_enhanced_fallback(user_input)
    ELSE Returned(<<"I'm ready to help! Please provide more specific details about what you need.">>)

(* ------------------------- completion backend ------------------------- *)

(***************************************************************************)
(* What self.model.generate_content does is outside the program: a call    *)
(* either raises or returns a response whose text is a sequence of pieces, *)
(* a piece being a code fence (three backquotes, "FENCE"), a newline "\n"   *)
(* or a run of text.                                                       *)
(***************************************************************************)
BackendReplies ==
    { <<"Here is the analysis.">>,
      <<"Use this:", "FENCE", "\n", "x = 1", "\n", "FENCE">>,
      <<"FENCE", "python", "\n", "x = 1", "\n", "FENCE">> }

BackendOutcomes ==
    {[raises |-> TRUE, text |-> << >>]}
    \cup {[raises |-> FALSE, text |-> t] : t \in BackendReplies}

\* the backend was not called
NoBackendCall == [called |-> FALSE, raises |-> FALSE, text |-> << >>, prompt |-> << >>]

\* generate_content(prompt) was called and raised or returned outcome.text
BackendCall(outcome, prompt) ==
    [called |-> TRUE, raises |-> outcome.raises, text |-> outcome.text, prompt |-> prompt]

\* the pieces that \w+ matches
IsWord(piece) == piece \notin {"FENCE", "\n"}

\* position of the "\n" of the first newline-fence pair at or after position i;
\* 0 if none
RECURSIVE CloseAt(_, _)
CloseAt(raw, i) ==
    IF i + 1 > Len(raw) THEN 0
    ELSE IF raw[i] = "\n" /\ raw[i + 1] = "FENCE" THEN i
    ELSE CloseAt(raw, i + 1)

\* EnhancedGeminiAgent._format_response(raw_response): every fenced block (fence,
\* optional language, newline, code, newline, fence) is rewritten with the
\* language 'text' when none is given
RECURSIVE format_from(_, _)
format_from(raw, i) ==
    IF i > Len(raw) THEN << >>
    ELSE IF raw[i] # "FENCE" THEN <<raw[i]>> \o format_from(raw, i + 1)
    ELSE
    LET hasLang == i + 1 <= Len(raw) /\ IsWord(raw[i + 1])
        nl == IF hasLang THEN i + 2 ELSE i + 1
        close == IF nl <= Len(raw) /\ raw[nl] = "\n" THEN CloseAt(raw, nl + 1) ELSE 0
    IN  IF close = 0 THEN <<raw[i]>> \o format_from(raw, i + 1)
        ELSE <<"FENCE", IF hasLang THEN raw[i + 1] ELSE "text">>
             \o SubSeq(raw, nl, close + 1) \o format_from(raw, close + 2)

format_response(raw_response) == format_from(raw_response, 1)

\* the prompt _generate_gemini_response sends
enhanced_prompt(name, user_input, file_content) ==
    <<"system_prompt", name, "IMPORTANT FORMATTING GUIDELINES", "User Request: ">>
    \o (IF IsStr(user_input) THEN user_input.s ELSE <<user_input.kind>>)
    \o (IF Truthy(file_content)
        THEN <<"File Content (first 2000 chars):">> \o Take(file_content.s, ContextLimit)
        ELSE << >>)
    \o <<"Provide a comprehensive, well-formatted response:">>

\* _generate_gemini_response without the try / except around the backend call
generate_gemini_response_uncaught(name, user_input, file_content, outcome) ==
    IF Truthy(file_content) /\ ~IsStr(file_content) THEN Raised("TypeError")
    ELSE IF outcome.raises THEN Raised("RuntimeError")
    ELSE Returned(format_response(outcome.text))

\* EnhancedGeminiAgent._generate_gemini_response(user_input, file_content), given
\* what the backend call does
generate_gemini_response(name, user_input, file_content, outcome) ==
    IF Truthy(file_content) /\ ~IsStr(file_content) THEN Raised("TypeError")
    ELSE IF outcome.raises
    THEN enhanced_fallback_response(name, user_input, file_content)
    ELSE Returned(format_response(outcome.text))

(* ------------------------------ the agent ----------------------------- *)

Status == {"idle", "processing", "error"}

ModelName == "gemini-2.0-flash-lite"

\* the key 'file_content' is not in the context
Absent == [kind |-> "absent", s |-> << >>]

\* full_context with has_file set for a non-empty excerpt only
full_context_has_file_truthy(name, user_input, file_content) ==
    IF Truthy(file_content) /\ ~IsStr(file_content) THEN Raised("TypeError")
    ELSE Returned([user_input |-> user_input,
                   agent_name |-> name,
                   has_file |-> Truthy(file_content),
                   file_content |-> IF Truthy(file_content)
                                    THEN Str(Take(file_content.s, ContextLimit))
                                    ELSE Absent])

\* full_context of process; building it raises when a truthy file is no string
full_context(name, user_input, file_content) ==
    IF Truthy(file_content) /\ ~IsStr(file_content) THEN Raised("TypeError")
    ELSE Returned([user_input |-> user_input,
                   agent_name |-> name,
                   has_file |-> file_content.kind # "none",
                   file_content |-> IF Truthy(file_content)
                                    THEN Str(Take(file_content.s, ContextLimit))
                                    ELSE Absent])

\* whether process calls the backend: not (not self.model or not GEMINI_API_KEY)
UsesBackend(hasModel, key) == hasModel /\ key

\* the response of process: composer or backend
process_response(name, user_input, file_content, hasModel, key, outcome) ==
    IF ~UsesBackend(hasModel, key)
    THEN enhanced_fallback_response(name, user_input, file_content)
    ELSE generate_gemini_response(name, user_input, file_content, outcome)

\* "model" of the metadata process returns
metadata_model(hasModel) == IF hasModel THEN ModelName ELSE "fallback"

\* process without set_status("idle") before its return
status_after_no_idle(raised) == IF raised THEN "error" ELSE "processing"

\* the status process leaves when its try block completes / raises
status_after(raised) == IF raised THEN "error" ELSE "idle"

\* the backend call process made, if any
backend_call(ctx, hasModel, key, outcome, prompt) ==
    IF ctx.exc = "" /\ UsesBackend(hasModel, key) THEN BackendCall(outcome, prompt) ELSE NoBackendCall

\* the return of process from its try block (ctx and resp did not raise) or from
\* its except block (e names what was raised)
process_return(name, hasModel, ctx, resp, e, called) ==
    IF e = ""
    THEN [status |-> status_after(FALSE),
          backend |-> called,
          escaped |-> "",
          result |-> [success |-> TRUE,
                      agent |-> name,
                      response |-> resp.val,
                      metadata |-> [model |-> metadata_model(hasModel),
                                    context |-> ctx.val]]]
    ELSE [status |-> status_after(TRUE),
          backend |-> called,
          escaped |-> "",
          result |-> [success |-> FALSE,
                      agent |-> name,
                      response |-> <<"I encountered an error while processing your request: ", e>>,
                      metadata |-> [error |-> e, status |-> "error"]]]

\* the first exception of the try block of process
first_raised(ctx, resp) == IF ctx.exc # "" THEN ctx.exc ELSE resp.exc

process_try(name, hasModel, ctx, resp, called) ==
    process_return(name, hasModel, ctx, resp, first_raised(ctx, resp), called)

\* EnhancedGeminiAgent.process(user_input, context, file_content): the result
\* it returns and the status it sets last
process(name, user_input, file_content, hasModel, key, outcome) ==
    process_try(name, hasModel,
                full_context(name, user_input, file_content),
                process_response(name, user_input, file_content, hasModel, key, outcome),
                backend_call(full_context(name, user_input, file_content), hasModel, key, outcome,
                             enhanced_prompt(name, user_input, file_content)))

(* --------------------------- the orchestrator ------------------------- *)

\* EnhancedGeminiAgent.set_status(status) of the agent under key: the agent's
\* field and the orchestrator's registry entry (update_agent_status)
set_status(st, key, status) ==
    [processing_status |-> [st.processing_status EXCEPT ![key] = status],
     agent_status |-> (AgentName(key) :> status) @@ st.agent_status]

\* for agent in self.agents.values(): agent.set_status(status), from position i
RECURSIVE set_all(_, _, _)
set_all(st, i, status) ==
    IF i > Len(AgentKeys) THEN st
    ELSE set_all(set_status(st, AgentKeys[i], status), i + 1, status)

\* get_agent_status that reports the statuses the agents were built with
get_agent_status_cached(st, key) ==
    [orchestrator_status |-> "active",
     api_status |-> IF key THEN "configured" ELSE "missing",
     available_agents |-> [i \in 1..Len(AgentKeys) |->
                              [name |-> AgentName(AgentKeys[i]), status |-> "idle"]],
     total_agents |-> Len(AgentKeys),
     real_time_status |-> st.agent_status]

\* EnhancedGeminiOrchestrator.get_agent_status()
get_agent_status(st, key) ==
    [orchestrator_status |-> "active",
     api_status |-> IF key THEN "configured" ELSE "missing",
     available_agents |-> [i \in 1..Len(AgentKeys) |->
                              [name |-> AgentName(AgentKeys[i]),
                               status |-> st.processing_status[AgentKeys[i]]]],
     total_agents |-> Len(AgentKeys),
     real_time_status |-> st.agent_status]

\* process_request without its except block: e leaves the call
request_failed_uncaught(st, e) ==
    [st |-> st, backend |-> NoBackendCall, escaped |-> e,
     result |-> [success |-> FALSE, final_response |-> << >>, metadata |-> [error |-> e]]]

\* what process_request does when its try block raises e
request_failed(st, e) ==
    [st |-> set_all(st, 1, "idle"),
     backend |-> NoBackendCall,
     escaped |-> "",
     result |-> [success |-> FALSE,
                 final_response |-> <<"I encountered an error while processing your request. Please try again. Error: ", e>>,
                 metadata |-> [error |-> e]]]

\* the return of process_request with file_processed set for a non-empty excerpt only
request_done_file_truthy(after, selected_agent, file_content, key, p) ==
    [st |-> after, backend |-> p.backend, escaped |-> "",
     result |-> [success |-> p.result.success,
                 final_response |-> p.result.response,
                 agent_responses |-> <<p.result>>,
                 metadata |-> [selected_agent |-> selected_agent,
                               agents_consulted |-> <<selected_agent>>,
                               routing_decision |-> [selected |-> selected_agent],
                               file_processed |-> Truthy(file_content),
                               agent_status |-> get_agent_status(after, key)]]]

\* the return of process_request after the selected agent's process returned p
request_done(after, selected_agent, file_content, key, p) ==
    [st |-> after, backend |-> p.backend, escaped |-> "",
     result |-> [success |-> p.result.success,
                 final_response |-> p.result.response,
                 agent_responses |-> <<p.result>>,
                 metadata |-> [selected_agent |-> selected_agent,
                               agents_consulted |-> <<selected_agent>>,
                               routing_decision |-> [selected |-> selected_agent],
                               file_processed |-> file_content.kind # "none",
                               agent_status |-> get_agent_status(after, key)]]]

\* process_request that sets every agent idle before it records the status of the
\* selected agent
request_processed_resets_all(st, selected_agent, file_content, key, p) ==
    request_done(set_status(set_all(st, 1, "idle"), selected_agent, p.status),
                 selected_agent, file_content, key, p)

\* process_request once the agent's process returned p
request_processed(st, selected_agent, file_content, key, p) ==
    request_done(set_status(st, selected_agent, p.status), selected_agent, file_content, key, p)

\* process_request, lines 539-544: the selected key is no agent
routing_failed(st) ==
    [st |-> st, backend |-> NoBackendCall, escaped |-> "",
     result |-> [success |-> FALSE,
                 final_response |-> <<"Unable to route your request. Please try rephrasing your question.">>,
                 metadata |-> [error |-> "routing_failed"]]]

\* process_request that admits a request only when the selected agent is idle
request_routed_when_idle(st, user_input, file_content, hasModel, key, outcome, routed) ==
    IF routed.exc # "" THEN request_failed(st, routed.exc)
    ELSE IF routed.val \notin Agents \/ st.processing_status[routed.val] # "idle"
    THEN routing_failed(st)
    ELSE request_processed(st, routed.val, file_content, key,
                           process(AgentName(routed.val), user_input, file_content,
                                   hasModel[routed.val], key, outcome))

\* process_request once _route_request returned or raised
request_routed(st, user_input, file_content, hasModel, key, outcome, routed) ==
    IF routed.exc # "" THEN request_failed(st, routed.exc)
    ELSE IF routed.val \notin Agents
    THEN routing_failed(st)
    ELSE request_processed(st, routed.val, file_content, key,
                           process(AgentName(routed.val), user_input, file_content,
                                   hasModel[routed.val], key, outcome))

\* EnhancedGeminiOrchestrator.process_request(user_input, session_id,
\* file_content, file_name): the statuses it leaves and the result it returns
process_request(st, user_input, file_content, hasModel, key, outcome) ==
    request_routed(st, user_input, file_content, hasModel, key, outcome,
                   route_request(user_input, file_content))

(* ------------------------------- requests ----------------------------- *)

\* request texts of the callers of process_request and process
SampleTexts ==
    { <<>>, <<" "," "," ">>, <<"h","e","l","l","o">>, <<"S","e","n","t","i","m","e","n","t",":"," ","\"","I"," ","l","o","v","e"," ","t","h","i","s"," ","p","r","o","d","u","c","t","\"">>,
      <<"w","r","i","t","e"," ","a"," ","p","y","t","h","o","n"," ","f","u","n","c","t","i","o","n">>, <<"a","n","a","l","y","z","e"," ","s","a","l","e","s"," ","d","a","t","a">> }

\* file excerpts
SampleFiles ==
    { <<>>, <<"n","a","m","e",",","a","g","e">>, <<"d","e","f"," ","f","(",")",":"," ","p","a","s","s">>, <<"p","l","a","i","n"," ","n","o","t","e","s">> }

UserInputs == {Str(t) : t \in SampleTexts} \cup {None}

FileContents == {Str(f) : f \in SampleFiles} \cup {None, Int5}

\* the words of the request texts that are routed
Vocabulary ==
    { <<"A","n","a","l","y","z","e">>, <<"s","e","n","t","i","m","e","n","t">>, <<"p","y","t","h","o","n">>, <<"j","a","v","a","s","c","r","i","p","t">>, <<"s","c","r","i","p","t">>, <<"f","u","n","c","t","i","o","n">>,
      <<"d","a","t","a","s","e","t">>, <<"c","h","a","r","t">>, <<"c","r","e","a","t","e">>, <<"p","l","o","t">>, <<"r","e","v","i","e","w">>, <<"h","e","l","l","o">> }

\* the texts of exactly n words, joined by single spaces
RECURSIVE WordTexts(_)
WordTexts(n) ==
    IF n = 0 THEN {<< >>}
    ELSE IF n = 1 THEN Vocabulary
    ELSE {t \o <<" ">> \o w : t \in WordTexts(n - 1), w \in Vocabulary}

RoutedTexts == UNION {WordTexts(n) : n \in 0..MaxWords}

RoutedFiles ==
    { <<>>, <<"a",",","b",",","c">>, <<"J","S","O","N">>, <<"d","e","f"," ","f","(",")",":">>, <<"n","o","t","e","s"," ","f","r","o","m"," ","m","e">>, <<"I","m","p","o","r","t"," ","C","S","V">>, <<"h","e","l","l","o">> }

RouteCalls ==
    [op : {"route_request"}, agent : {""},
     user_input : {Str(t) : t \in RoutedTexts} \cup {None},
     file_content : {Str(f) : f \in RoutedFiles} \cup {None, Int5}]

\* request texts with many keywords, with a keyword repeated and with a keyword
\* inside another word
ScoredTexts ==
    { <<"a","n","a","l","y","z","e"," ","s","e","n","t","i","m","e","n","t"," ","s","u","m","m","a","r","i","z","e"," ","t","e","x","t"," ","c","o","n","t","e","n","t"," ","d","o","c","u","m","e","n","t"," ","l","a","n","g","u","a","g","e"," ","r","e","a","d">>,
      <<"w","r","i","t","e"," ","p","y","t","h","o","n"," ","c","o","d","e"," ","f","u","n","c","t","i","o","n"," ","d","e","b","u","g">>,
      <<"W","r","i","t","e"," ","a"," ","P","y","t","h","o","n"," ","s","c","r","i","p","t",","," ","c","r","e","a","t","e"," ","a","n"," ","a","l","g","o","r","i","t","h","m"," ","a","n","d"," ","d","e","b","u","g"," ","t","h","e"," ","p","r","o","g","r","a","m">>,
      <<"d","a","t","a"," ","d","a","t","a"," ","d","a","t","a">>,
      <<"d","a","t","a","s","e","t">>,
      <<"p","l","o","t"," ","t","h","e"," ","g","r","a","p","h"," ","o","f"," ","t","h","e"," ","n","u","m","b","e","r","s"," ","a","n","d"," ","c","a","l","c","u","l","a","t","e">> }

\* the calls of _calculate_enhanced_score: for the three agents and for a name
\* that is none of them
ScoreCalls ==
    [op : {"calculate_enhanced_score"}, agent : Agents \cup {"orchestrator"},
     user_input : {Str(t) : t \in RoutedTexts \cup ScoredTexts},
     file_content : {None}]

\* the words of the request texts that are handed to the composer
ComposerVocabulary ==
    { <<"s","e","n","t","i","m","e","n","t">>, <<"S","e","n","t","i","m","e","n","t",":">>, <<"t","e","x","t",":">>, <<"\"","l","o","v","e","\"">>, <<"\"">>, <<"g","r","e","a","t">>, <<"a","w","f","u","l">>,
      <<"t","e","r","r","i","b","l","e">>, <<"p","y","t","h","o","n">>, <<"j","a","v","a">>, <<"f","u","n","c","t","i","o","n">>, <<" ">> }

\* the texts of exactly n words of ComposerVocabulary, joined by single spaces
RECURSIVE ComposerWordTexts(_)
ComposerWordTexts(n) ==
    IF n = 0 THEN {<< >>}
    ELSE IF n = 1 THEN ComposerVocabulary
    ELSE {t \o <<" ">> \o w : t \in ComposerWordTexts(n - 1), w \in ComposerVocabulary}

ComposedTexts == UNION {ComposerWordTexts(n) : n \in 0..MaxWords}

ComposedFiles == { <<>>, <<"n","a","m","e",",","a","g","e">> }

ComposerCalls ==
    [op : {"process"}, agent : Agents,
     user_input : {Str(t) : t \in ComposedTexts},
     file_content : {Str(f) : f \in ComposedFiles} \cup {None}]

\* whole sentences handed to the sentiment report
SentimentSamples ==
    { <<"T","h","i","s"," ","i","s"," ","t","e","r","r","i","b","l","e"," ","a","n","d"," ","a","w","f","u","l">>, <<"T","h","e"," ","m","e","e","t","i","n","g"," ","i","s"," ","a","t"," ","n","o","o","n">>,
      <<"I"," ","l","o","v","e"," ","t","h","i","s"," ","g","r","e","a","t"," ","p","r","o","d","u","c","t">>, <<"T","e","x","t",":"," "," "," ","i","t"," ","w","a","s"," ","t","h","e"," ","W","O","R","S","T"," ","d","a","y">>,
      <<"m","y"," ","s","e","n","t","i","m","e","n","t">>, <<"t","e","x","t",":",":">>, <<"s","e","n","t","i","m","e","n","t",":"," ">>, <<"a","w","f","u","l"," ","s","e","n","t","i","m","e","n","t"," ","g","r","e","a","t">>,
      <<"C","o","n","t","e","x","t"," ","g","r","e","a","t">>, <<"t","e","x","t","b","o","o","k"," ","s","e","n","t","i","m","e","n","t","s"," ","a","r","e"," ","a","w","f","u","l">> }

\* direct calls of _analyze_sentiment_with_formatting
SentimentCalls ==
    [op : {"analyze_sentiment"}, agent : {"nlp"},
     user_input : {Str(t) : t \in ComposedTexts \cup SentimentSamples},
     file_content : {None}]


\* the characters of a long file excerpt, repeated
LongFilePattern == <<"n","a","m","e",",","a","g","e",";">>

\* a file excerpt of n characters
LongFile(n) == [i \in 1..n |-> LongFilePattern[((i - 1) % Len(LongFilePattern)) + 1]]

\* file excerpts longer than the preview and the context limits
LongFiles == {LongFile(PreviewLimit + 1), LongFile(ContextLimit + 1)}

\* requests that come with a file excerpt, short or long, and name an intent
FileCalls ==
    [op : {"process_request"}, agent : {""},
     user_input : {Str(<<"S","e","n","t","i","m","e","n","t",":"," ","\"","I"," ","l","o","v","e"," ","t","h","i","s"," ","p","r","o","d","u","c","t","\"">>), Str(<<"w","r","i","t","e"," ","a"," ","p","y","t","h","o","n"," ","f","u","n","c","t","i","o","n">>)},
     file_content : {Str(f) : f \in LongFiles \cup {<<"n","a","m","e",",","a","g","e">>, <<"d","e","f"," ","f","(",")",":"," ","p","a","s","s">>}}]
    \cup [op : {"process"}, agent : Agents,
          user_input : {Str(<<"S","e","n","t","i","m","e","n","t",":"," ","\"","I"," ","l","o","v","e"," ","t","h","i","s"," ","p","r","o","d","u","c","t","\"">>), Str(<<"w","r","i","t","e"," ","a"," ","p","y","t","h","o","n"," ","f","u","n","c","t","i","o","n">>)},
          file_content : {Str(f) : f \in LongFiles \cup {<<"n","a","m","e",",","a","g","e">>, <<"d","e","f"," ","f","(",")",":"," ","p","a","s","s">>}}]

\* a call of get_agent_status()
StatusQuery == [op |-> "get_agent_status", agent |-> "", user_input |-> None, file_content |-> None]

Calls ==
    [op : {"process_request"}, agent : {""},
     user_input : UserInputs, file_content : FileContents]
    \cup [op : {"process"}, agent : Agents,
          user_input : UserInputs, file_content : FileContents]
    \cup {StatusQuery}

NoCall == [op |-> "none", agent |-> "", user_input |-> None, file_content |-> None]

\* the call has not returned
Pending == [returned |-> FALSE]

(* ---------------------------- the HTTP service ----------------------- *)

(***************************************************************************)
(* main.py: the handlers are coroutines that never await while they work,  *)
(* so the event loop runs one request from its first statement to its      *)
(* response before it starts the next.  The store is the three tables of   *)
(* models/database.py, each a set of rows, with the serial number last     *)
(* given to a row of each table.  The store is the database DATABASE_URL   *)
(* names.  create_all builds the tables that are missing, with their       *)
(* foreign keys; in a database that held the tables of the earlier schema  *)
(* (migrate_database.py) conversations and agent_executions stay as they   *)
(* were, without the foreign keys to the new chat_sessions.  A statement   *)
(* succeeds unless the store has the foreign keys and the statement breaks *)
(* one.  Two POST requests are served at different times, so created_at    *)
(* orders the conversations as they were stored.                           *)
(***************************************************************************)

EmptyDb ==
    [chat_sessions |-> {}, conversations |-> {}, agent_executions |-> {},
     serial |-> [chat_sessions |-> 0, conversations |-> 0, agent_executions |-> 0],
     foreign_keys |-> TRUE]

\* the empty tables of a database migrated from the earlier schema
MigratedDb == [EmptyDb EXCEPT !.foreign_keys = FALSE]

Stores == {EmptyDb, MigratedDb}

\* session ids the clients send and values of str(uuid.uuid4())
SessionIds == {"s1", "s2"}

FreshIds == {"u1"}

AllIds == SessionIds \cup FreshIds

\* message[:50] in the title of a new session
TitleLimit == 50

\* the files in UPLOAD_DIR, by file id: the name after the id and what reading the
\* file as utf-8 text gives
Uploads ==
    [f1 |-> [file_name |-> <<"s","a","l","e","s",".","c","s","v">>, reads |-> "text", text |-> <<"n","a","m","e",",","a","g","e">>],
     f2 |-> [file_name |-> <<"l","o","g","o",".","p","n","g">>, reads |-> "UnicodeDecodeError", text |-> << >>],
     f9 |-> [file_name |-> <<"l","o","c","k","e","d",".","t","x","t">>, reads |-> "PermissionError", text |-> << >>]]

\* no file came with the request
NoUpload == [file_content |-> None, file_name |-> None]

\* lines 550-562 of POST /api/chat: file_content and file_name for the file id sent
\* ("" when none is sent); raises what reading the file raises
read_upload(file_id) ==
    IF file_id \notin DOMAIN Uploads
    THEN Returned(NoUpload)
    ELSE IF Uploads[file_id].reads = "text"
    THEN Returned([file_content |-> Str(Uploads[file_id].text),
                   file_name |-> Str(Uploads[file_id].file_name)])
    ELSE IF Uploads[file_id].reads = "UnicodeDecodeError"
    THEN Returned([file_content |-> Str(<<"B","i","n","a","r","y"," ","f","i","l","e",":"," ">> \o Uploads[file_id].file_name),
                   file_name |-> Str(Uploads[file_id].file_name)])
    ELSE Raised(Uploads[file_id].reads)

\* result.get("metadata", {}).get("agents_consulted", ["orchestrator"])
agents_used(r) ==
    IF "agents_consulted" \in DOMAIN r.metadata THEN r.metadata.agents_consulted
    ELSE <<"orchestrator">>

\* agents_used[0] if agents_used else "orchestrator"
primary_agent(r) == IF agents_used(r) # << >> THEN agents_used(r)[1] ELSE "orchestrator"

\* result.get("agent_responses", [{}])
agent_responses(r) == IF "agent_responses" \in DOMAIN r THEN r.agent_responses ELSE << << >> >>

\* message[:50] + "..." if len(message) > 50 else message
title_of(message) ==
    IF Len(message) > TitleLimit THEN Take(message, TitleLimit) \o <<".",".",".">> ELSE message

\* the rows of the session id in a table
SessionRows(d, session_id) == {s \in d.chat_sessions : s.session_id = session_id}

ConversationRows(d, session_id) == {c \in d.conversations : c.session_id = session_id}

\* lines 577-588 with the title of an existing session set again
ensure_session_retitled(d, session_id, message, t) ==
    IF SessionRows(d, session_id) # {}
    THEN [d EXCEPT !.chat_sessions =
              {IF s.session_id = session_id
               THEN [s EXCEPT !.updated_at = t, !.title = title_of(message)] ELSE s : s \in @}]
    ELSE [d EXCEPT !.chat_sessions =
              @ \cup {[id |-> d.serial.chat_sessions + 1, session_id |-> session_id,
                       title |-> title_of(message), created_at |-> t, updated_at |-> t]},
                   !.serial.chat_sessions = @ + 1]

\* lines 577-588: the session row is created, or its updated_at is set
ensure_session(d, session_id, message, t) ==
    IF SessionRows(d, session_id) # {}
    THEN [d EXCEPT !.chat_sessions =
              {IF s.session_id = session_id THEN [s EXCEPT !.updated_at = t] ELSE s : s \in @}]
    ELSE [d EXCEPT !.chat_sessions =
              @ \cup {[id |-> d.serial.chat_sessions + 1, session_id |-> session_id,
                       title |-> title_of(message), created_at |-> t, updated_at |-> t]},
                   !.serial.chat_sessions = @ + 1]

\* lines 591-604: the conversation row; message_id is a new uuid, written as the
\* serial number of the row in a tuple (the empty tuple is NULL)
store_conversation(d, session_id, message, up, r, t) ==
    [d EXCEPT !.conversations =
         @ \cup {[id |-> d.serial.conversations + 1,
                  session_id |-> session_id,
                  message_id |-> <<d.serial.conversations + 1>>,
                  user_message |-> message,
                  agent_response |-> IF "final_response" \in DOMAIN r THEN r.final_response
                                     ELSE <<"No response generated">>,
                  agent_used |-> primary_agent(r),
                  extra_data |-> [file_attached |-> up.file_content # None,
                                  file_name |-> up.file_name] @@ r.metadata,
                  created_at |-> t]},
              !.serial.conversations = @ + 1]

\* lines 168-176 of the first chat_with_agents (POST /chat): the conversation row,
\* without message_id
legacy_conversation(d, session_id, message, r, t) ==
    [d EXCEPT !.conversations =
         @ \cup {[id |-> d.serial.conversations + 1,
                  session_id |-> session_id,
                  message_id |-> << >>,
                  user_message |-> message,
                  agent_response |-> IF "final_response" \in DOMAIN r THEN r.final_response
                                     ELSE <<"No response generated">>,
                  agent_used |-> primary_agent(r),
                  extra_data |-> r.metadata,
                  created_at |-> t]},
              !.serial.conversations = @ + 1]

\* lines 607-616: one execution row for each agent of agents_used, from position i
RECURSIVE store_executions(_, _, _, _, _, _, _)
store_executions(d, conversation_id, i, message, up, r, t) ==
    IF i > Len(agents_used(r)) THEN d
    ELSE store_executions(
             [d EXCEPT !.agent_executions =
                  @ \cup {[id |-> d.serial.agent_executions + 1,
                           conversation_id |-> conversation_id,
                           agent_name |-> agents_used(r)[i],
                           input_data |-> [message |-> message,
                                           file_attached |-> up.file_content # None],
                           output_data |-> IF i <= Len(agent_responses(r))
                                           THEN agent_responses(r)[i] ELSE << >>,
                           execution_time |-> 0,
                           status |-> IF r.success THEN "success" ELSE "error",
                           created_at |-> t]},
                      !.serial.agent_executions = @ + 1],
             conversation_id, i + 1, message, up, r, t)

\* lines 577-618: what POST /api/chat stores for the orchestrator's result r
chat_stored(d, session_id, message, up, r, t) ==
    store_executions(store_conversation(ensure_session(d, session_id, message, t),
                                        session_id, message, up, r, t),
                     d.serial.conversations + 1, 1, message, up, r, t)

\* lines 168-190 of POST /chat: what it stores for the orchestrator's result r;
\* its execution rows differ from those of POST /api/chat in input_data only
legacy_stored(d, session_id, message, r, t) ==
    store_executions(legacy_conversation(d, session_id, message, r, t),
                     d.serial.conversations + 1, 1, message, NoUpload, r, t)

\* lines 620-628: the ChatResponse
chat_response(session_id, message_id, r) ==
    [status |-> 200,
     body |-> [response |-> IF "final_response" \in DOMAIN r THEN r.final_response
                            ELSE <<"I couldn't process your request.">>,
               agent_used |-> primary_agent(r),
               success |-> r.success,
               session_id |-> session_id,
               message_id |-> message_id,
               metadata |-> r.metadata]]

\* raise HTTPException(status_code=..., detail=...)
http_error(status, detail) == [status |-> status, body |-> [detail |-> detail]]

\* .order_by(Conversation.created_at).all() of the rows
RECURSIVE by_created_at(_)
by_created_at(rows) ==
    IF rows = {} THEN << >>
    ELSE LET first == CHOOSE c \in rows : \A o \in rows : c.created_at <= o.created_at
         IN  <<first>> \o by_created_at(rows \ {first})

\* the two messages of a conversation, lines 475-491
messages_of(conv) ==
    << [id |-> <<conv.id, "_user">>, type |-> "user", content |-> conv.user_message,
        timestamp |-> conv.created_at, metadata |-> conv.extra_data],
       [id |-> <<conv.id, "_agent">>, type |-> "agent", content |-> conv.agent_response,
        agent_used |-> conv.agent_used, timestamp |-> conv.created_at,
        metadata |-> conv.extra_data] >>

RECURSIVE all_messages(_)
all_messages(convs) ==
    IF convs = << >> THEN << >> ELSE messages_of(Head(convs)) \o all_messages(Tail(convs))

\* get_session_messages that lists the latest conversation first
get_session_messages_newest_first(d, session_id) ==
    IF SessionRows(d, session_id) = {} THEN http_error(404, "Session not found")
    ELSE [status |-> 200,
          body |-> [session_id |-> session_id,
                    messages |-> all_messages(
                        [i \in 1..Cardinality(ConversationRows(d, session_id)) |->
                            by_created_at(ConversationRows(d, session_id))
                                [Cardinality(ConversationRows(d, session_id)) + 1 - i]]),
                    created_at |-> (CHOOSE s \in SessionRows(d, session_id) : TRUE).created_at,
                    updated_at |-> (CHOOSE s \in SessionRows(d, session_id) : TRUE).updated_at,
                    message_count |-> Cardinality(ConversationRows(d, session_id))]]

\* GET /api/chat/session/{session_id}: get_session_messages, lines 461-499
get_session_messages(d, session_id) ==
    IF SessionRows(d, session_id) = {} THEN http_error(404, "Session not found")
    ELSE [status |-> 200,
          body |-> [session_id |-> session_id,
                    messages |-> all_messages(by_created_at(ConversationRows(d, session_id))),
                    created_at |-> (CHOOSE s \in SessionRows(d, session_id) : TRUE).created_at,
                    updated_at |-> (CHOOSE s \in SessionRows(d, session_id) : TRUE).updated_at,
                    message_count |-> Len(by_created_at(ConversationRows(d, session_id)))]]

\* the execution rows that name one of the conversations
ExecutionRows(d, conversations) ==
    {e \in d.agent_executions : e.conversation_id \in {c.id : c \in conversations}}

\* lines 509-510: the executions of the session's conversations go, when the
\* session has conversations
delete_executions(d, session_id) ==
    [d EXCEPT !.agent_executions = @ \ ExecutionRows(d, ConversationRows(d, session_id))]

\* line 513: the conversations of the session go; the store refuses when an
\* execution still names one of them
delete_conversations(d, session_id) ==
    IF d.foreign_keys /\ ExecutionRows(d, ConversationRows(d, session_id)) # {}
    THEN Raised("IntegrityError")
    ELSE Returned([d EXCEPT !.conversations = @ \ ConversationRows(d, session_id)])

\* lines 516-520: the session row goes, if there is one; the store refuses when a
\* conversation still names it
delete_session_row(d, session_id) ==
    IF d.foreign_keys /\ SessionRows(d, session_id) # {} /\ ConversationRows(d, session_id) # {}
    THEN Raised("IntegrityError")
    ELSE Returned([d EXCEPT !.chat_sessions = @ \ SessionRows(d, session_id)])

\* the statements of delete_session after the executions are dealt with
delete_from_conversations(d, session_id) ==
    IF delete_conversations(d, session_id).exc # "" THEN delete_conversations(d, session_id)
    ELSE delete_session_row(delete_conversations(d, session_id).val, session_id)

\* delete_session that leaves the executions of the session's conversations
delete_session_keeps_executions(d, session_id) == delete_from_conversations(d, session_id)

\* DELETE /api/chat/session/{session_id}: delete_session, lines 501-522: the
\* store after the commit, or what a statement raised
delete_session(d, session_id) ==
    delete_from_conversations(delete_executions(d, session_id), session_id)

\* the messages the clients send: a short one and one of more than 50 characters
HttpMessages ==
    { <<"h","e","l","l","o">>,
      <<"w","r","i","t","e"," ","a"," ","p","y","t","h","o","n"," ","f","u","n","c","t","i","o","n"," ","t","h","a","t"," ","a","d","d","s"," ","t","w","o"," ","n","u","m","b","e","r","s",","," ","p","l","e","a","s","e">> }

\* the forms POST /api/chat receives: session_id and file_id are "" when not sent
ChatRequests ==
    [op : {"POST /api/chat"}, message : {<<"h","e","l","l","o">>},
     session_id : SessionIds \cup {""}, file_id : {""}]
    \cup [op : {"POST /api/chat"}, message : HttpMessages \ {<<"h","e","l","l","o">>},
          session_id : {"s1"}, file_id : {""}]
    \cup [op : {"POST /api/chat"}, message : {<<"h","e","l","l","o">>},
          session_id : {"s1"}, file_id : {"f1", "f2", "f9"}]

\* the bodies POST /chat receives
LegacyRequests ==
    [op : {"POST /chat"}, message : {<<"h","e","l","l","o">>}, session_id : {"s1", ""}]

SessionRequests(op) == [op : {op}, session_id : AllIds]

\* what the backend does when a request of the service reaches it
HttpOutcomes ==
    {[raises |-> TRUE, text |-> << >>], [raises |-> FALSE, text |-> <<"Here is the analysis.">>]}

(* ---------------------------- the state machine ----------------------- *)

\* no call is running step by step
NoFrame == [pc |-> "none"]

\* the state after the module is imported and EnhancedGeminiOrchestrator() is
\* built: the credential may be set or not, and with a credential the agents'
\* models are built unless genai.GenerativeModel raised (the three agents are
\* built by the same call, so the three models are there or missing together)
Constructed ==
    /\ apiKey \in BOOLEAN
    /\ model \in {[a \in Agents |-> b] : b \in BOOLEAN}
    /\ \A a \in Agents : model[a] => apiKey
    /\ processing_status = [a \in Agents |-> "idle"]
    /\ agent_status = << >>
    /\ backend = NoBackendCall
    /\ frame = NoFrame
    /\ now = 0
    /\ posted = [s \in AllIds |-> << >>]
    /\ threads = << >>
    /\ writer = [a \in Agents |-> [field |-> "", registry |-> ""]]
    /\ entry = [processing_status |-> processing_status, agent_status |-> agent_status]

\* the orchestrator is built and the store is an empty database with the tables
\* create_all built
Configured ==
    /\ Constructed
    /\ db = EmptyDb

Init ==
    /\ Configured
    /\ call = NoCall
    /\ result = Pending

st == [processing_status |-> processing_status, agent_status |-> agent_status]

\* the call returns r.result and leaves the statuses r.st
Return(r) ==
    /\ processing_status' = r.st.processing_status
    /\ agent_status' = r.st.agent_status
    /\ backend' = r.backend
    /\ result' = [returned |-> TRUE, escaped |-> r.escaped, value |-> r.result]

\* an agent's process returned p to its caller
agent_processed(s, key, p) ==
    [st |-> set_status(s, key, p.status), backend |-> p.backend,
     escaped |-> p.escaped, result |-> p.result]

\* a caller calls process_request or an agent's process
Invoke ==
    /\ call.op = "none" \/ result # Pending
    /\ call' \in Calls
    /\ result' = Pending
    /\ backend' = NoBackendCall
    /\ entry' = st
    /\ UNCHANGED <<elsewhere, apiKey, model, processing_status, agent_status>>

\* the call of process_request runs and returns
ProcessRequest ==
    /\ call.op = "process_request" /\ result = Pending
    /\ \E outcome \in BackendOutcomes :
         Return(process_request(st, call.user_input, call.file_content, model, apiKey, outcome))
    /\ UNCHANGED <<elsewhere, entry, apiKey, model, call>>

\* the call of an agent's process runs and returns
Process ==
    /\ call.op = "process" /\ result = Pending
    /\ \E outcome \in BackendOutcomes :
         Return(agent_processed(st, call.agent,
                                process(AgentName(call.agent), call.user_input, call.file_content,
                                        model[call.agent], apiKey, outcome)))
    /\ UNCHANGED <<elsewhere, entry, apiKey, model, call>>

\* the call of get_agent_status runs and returns its snapshot
GetAgentStatus ==
    /\ call.op = "get_agent_status" /\ result = Pending
    /\ result' = [returned |-> TRUE, escaped |-> "", value |-> get_agent_status(st, apiKey)]
    /\ UNCHANGED <<elsewhere, entry, apiKey, model, processing_status, agent_status, backend, call>>

Next == Invoke \/ ProcessRequest \/ Process \/ GetAgentStatus

Spec == Init /\ [][Next]_vars

\* routing alone: one call of _route_request per behaviour
InitRoute ==
    /\ Configured
    /\ apiKey = FALSE
    /\ call \in RouteCalls \cup ScoreCalls
    /\ result = Pending

RouteRequest ==
    /\ call.op = "route_request" /\ result = Pending
    /\ LET r == route_request(call.user_input, call.file_content)
       IN  result' = [returned |-> TRUE, escaped |-> r.exc, value |-> r.val]
    /\ UNCHANGED <<elsewhere, entry, apiKey, model, processing_status, agent_status, backend, call>>

\* the call of _calculate_enhanced_score runs and returns the score
CalculateEnhancedScore ==
    /\ call.op = "calculate_enhanced_score" /\ result = Pending
    /\ result' = [returned |-> TRUE, escaped |-> "",
                  value |-> calculate_enhanced_score(call.user_input, call.agent)]
    /\ UNCHANGED <<elsewhere, entry, apiKey, model, processing_status, agent_status, backend, call>>

NextRoute == RouteRequest \/ CalculateEnhancedScore

SpecRoute == InitRoute /\ [][NextRoute]_vars

\* the composer alone: one call of process per behaviour, no backend in use
\* (no credential, or a credential and no model built)
InitCompose ==
    /\ Configured
    /\ \A a \in Agents : ~model[a]
    /\ call \in ComposerCalls \cup SentimentCalls
    /\ result = Pending

\* the call of _analyze_sentiment_with_formatting runs and returns its report
AnalyzeSentiment ==
    /\ call.op = "analyze_sentiment" /\ result = Pending
    /\ result' = [returned |-> TRUE, escaped |-> "",
                  value |-> analyze_sentiment_with_formatting(call.user_input)]
    /\ UNCHANGED <<elsewhere, entry, apiKey, model, processing_status, agent_status, backend, call>>

NextCompose == Process \/ AnalyzeSentiment

SpecCompose == InitCompose /\ [][NextCompose]_vars

\* requests with a file excerpt: one call of process_request or process per
\* behaviour, with or without a backend
InitFiles ==
    /\ Configured
    /\ call \in FileCalls
    /\ result = Pending

NextFiles == ProcessRequest \/ Process

SpecFiles == InitFiles /\ [][NextFiles]_vars

(* ------------------------ calls, statement by statement --------------- *)

(***************************************************************************)
(* One caller; a call of process_request or of an agent's process runs     *)
(* statement by statement.  frame.pc is the statement the call is at and   *)
(* the other fields of frame are its local variables: key (the agent), ctx *)
(* (full_context), resp (response), e (the exception caught) and p (the    *)
(* result process returned to process_request).                            *)
(***************************************************************************)

StepTexts == {Str(<<"h","e","l","l","o">>), Str(<<"w","r","i","t","e"," ","a"," ","p","y","t","h","o","n"," ","f","u","n","c","t","i","o","n">>), None}

StepFiles == {None, Str(<<"n","a","m","e",",","a","g","e">>), Int5}

StepCalls ==
    [op : {"process_request"}, agent : {""}, user_input : StepTexts, file_content : StepFiles]
    \cup [op : {"process"}, agent : Agents, user_input : StepTexts, file_content : StepFiles]

\* the backend call is made and has not returned
BackendPending(prompt) == [called |-> TRUE, raises |-> FALSE, text |-> << >>, prompt |-> prompt]

\* process without its first statement
process_entry_skipped(s, key) == s

\* line 69 of process: self.set_status("processing")
process_entry(s, key) == set_status(s, key, "processing")

\* the frame once _route_request returned or raised r
routed_frame(r) ==
    IF r.exc # "" THEN [pc |-> "failed", e |-> r.exc]
    ELSE [pc |-> "selected", key |-> r.val]

\* the frame once full_context is built or building it raised
context_frame(key, c) ==
    [pc |-> IF c.exc = "" THEN "respond" ELSE "except", key |-> key, ctx |-> c]

\* the frame once response is assigned or computing it raised
response_frame(f, r) ==
    [pc |-> IF r.exc = "" THEN "done" ELSE "except", key |-> f.key, ctx |-> f.ctx, resp |-> r]

\* response of the frame; not assigned when building the context raised
frame_resp(f) == IF "resp" \in DOMAIN f THEN f.resp ELSE Returned(<< >>)

\* the statuses become s
Statuses(s) ==
    /\ processing_status' = s.processing_status
    /\ agent_status' = s.agent_status

InitSteps ==
    /\ Configured
    /\ call = NoCall
    /\ result = Pending

\* the caller calls process_request or an agent's process
Enter ==
    /\ frame.pc = "none"
    /\ call.op = "none" \/ result # Pending
    /\ call' \in StepCalls
    /\ result' = Pending
    /\ backend' = NoBackendCall
    /\ frame' = IF call'.op = "process_request" THEN [pc |-> "route"]
                ELSE [pc |-> "enter", key |-> call'.agent]
    /\ entry' = st
    /\ UNCHANGED <<service, concurrent, apiKey, model, processing_status, agent_status>>

\* process_request, line 515: selected_agent = self._route_request(...); line 517
\* when the key is no agent
Route ==
    /\ frame.pc = "route"
    /\ IF route_request(call.user_input, call.file_content).exc = ""
          /\ route_request(call.user_input, call.file_content).val \notin Agents
       THEN /\ Return(request_routed(st, call.user_input, call.file_content, model, apiKey,
                                     [raises |-> TRUE, text |-> << >>],
                                     route_request(call.user_input, call.file_content)))
            /\ frame' = NoFrame
       ELSE /\ frame' = routed_frame(route_request(call.user_input, call.file_content))
            /\ UNCHANGED <<processing_status, agent_status, backend, result>>
    /\ UNCHANGED <<service, concurrent, entry, apiKey, model, call>>

\* process_request, line 518: self.agents[selected_agent].set_status("processing")
MarkSelected ==
    /\ frame.pc = "selected"
    /\ Statuses(set_status(st, frame.key, "processing"))
    /\ frame' = [pc |-> "enter", key |-> frame.key]
    /\ UNCHANGED <<service, concurrent, entry, apiKey, model, backend, call, result>>

\* process, line 69
EnterProcess ==
    /\ frame.pc = "enter"
    /\ Statuses(process_entry(st, frame.key))
    /\ frame' = [pc |-> "context", key |-> frame.key]
    /\ UNCHANGED <<service, concurrent, entry, apiKey, model, backend, call, result>>

\* process, lines 72-79: full_context
BuildContext ==
    /\ frame.pc = "context"
    /\ frame' = context_frame(frame.key,
                              full_context(AgentName(frame.key), call.user_input, call.file_content))
    /\ UNCHANGED <<service, concurrent, entry, apiKey, model, processing_status, agent_status, backend, call, result>>

\* process, lines 81-84: the composer answers, or _generate_gemini_response builds
\* the prompt and calls the backend (line 129)
Respond ==
    /\ frame.pc = "respond"
    /\ IF UsesBackend(model[frame.key], apiKey)
       THEN /\ backend' = BackendPending(enhanced_prompt(AgentName(frame.key), call.user_input,
                                                         call.file_content))
            /\ frame' = [pc |-> "backend", key |-> frame.key, ctx |-> frame.ctx]
       ELSE /\ frame' = response_frame(frame,
                                       enhanced_fallback_response(AgentName(frame.key),
                                                                  call.user_input, call.file_content))
            /\ UNCHANGED backend
    /\ UNCHANGED <<service, concurrent, entry, apiKey, model, processing_status, agent_status, call, result>>

\* _generate_gemini_response, lines 129-132: the backend call returns or raises
BackendReturns ==
    /\ frame.pc = "backend"
    /\ \E outcome \in BackendOutcomes :
         /\ backend' = BackendCall(outcome, backend.prompt)
         /\ frame' = response_frame(frame,
                                    generate_gemini_response(AgentName(frame.key), call.user_input,
                                                             call.file_content, outcome))
    /\ UNCHANGED <<service, concurrent, entry, apiKey, model, processing_status, agent_status, call, result>>

\* what process returns from the frame f
frame_return(f, called) ==
    process_try(AgentName(f.key), model[f.key], f.ctx, frame_resp(f), called)

\* process, lines 86-97 and 99-106: set_status("idle") or set_status("error"), return
ProcessReturns ==
    /\ frame.pc \in {"done", "except"}
    /\ Statuses(set_status(st, frame.key, frame_return(frame, backend).status))
    /\ IF call.op = "process"
       THEN /\ result' = [returned |-> TRUE, escaped |-> "",
                          value |-> frame_return(frame, backend).result]
            /\ frame' = NoFrame
       ELSE /\ frame' = [pc |-> "wrap", key |-> frame.key,
                         p |-> frame_return(frame, backend).result]
            /\ UNCHANGED result
    /\ UNCHANGED <<service, concurrent, entry, apiKey, model, backend, call>>

\* process_request, lines 526-537: the result is built and returned
Wrap ==
    /\ frame.pc = "wrap"
    /\ Return(request_done(st, frame.key, call.file_content, apiKey,
                           [backend |-> backend, result |-> frame.p]))
    /\ frame' = NoFrame
    /\ UNCHANGED <<service, concurrent, entry, apiKey, model, call>>

\* process_request, lines 546-554: the except block
RequestFails ==
    /\ frame.pc = "failed"
    /\ Return(request_failed(st, frame.e))
    /\ frame' = NoFrame
    /\ UNCHANGED <<service, concurrent, entry, apiKey, model, call>>

\* the running call executes its next statement
Advance ==
    \/ Route \/ MarkSelected \/ EnterProcess \/ BuildContext \/ Respond
    \/ BackendReturns \/ ProcessReturns \/ Wrap \/ RequestFails

NextSteps == Enter \/ Advance

\* the interpreter goes on with the running call and the backend call returns
SpecSteps == InitSteps /\ [][NextSteps]_vars /\ WF_vars(Advance)

(* --------------------------- concurrent callers ----------------------- *)

(***************************************************************************)
(* Several callers, each in a thread of its own, call process_request or   *)
(* an agent's process on the one orchestrator.  The interpreter switches   *)
(* between threads between statements: an attribute assignment and a       *)
(* dictionary store are one step each, so set_status is two steps, the     *)
(* write of the agent's field (line 63) and the write of the registry      *)
(* entry (lines 64-65, 486-489).  threads[t] is the call of caller t: its  *)
(* arguments, the statement it is at, its local variables and, once it     *)
(* returned, its result.                                                   *)
(***************************************************************************)

Callers == {"t1", "t2"}

ThreadCalls ==
    { [op |-> "process_request", agent |-> "", user_input |-> Str(<<"h","e","l","l","o">>), file_content |-> None],
      [op |-> "process_request", agent |-> "", user_input |-> None, file_content |-> None],
      [op |-> "process", agent |-> "nlp", user_input |-> Str(<<"h","e","l","l","o">>), file_content |-> Int5],
      [op |-> "process", agent |-> "code", user_input |-> Str(<<"h","e","l","l","o">>), file_content |-> None] }

\* set_status, line 63: self.processing_status = status
field_written(s, key, status) ==
    [processing_status |-> [s.processing_status EXCEPT ![key] = status],
     agent_status |-> s.agent_status]

\* set_status, lines 64-65, and update_agent_status: the registry entry
registry_written(s, key, status) ==
    [processing_status |-> s.processing_status,
     agent_status |-> (AgentName(key) :> status) @@ s.agent_status]

\* the except block of process_request leaving alone an agent that is processing
reset_status_unless_processing(current) ==
    IF current = "processing" THEN current ELSE "idle"

\* process_request, line 548: agent.set_status("idle")
reset_status(current) == "idle"

\* the statements that are the first and the second half of a set_status call
FieldSites == {"mark", "enter", "finish", "reset"}

RegistrySites == {"mark_reg", "enter_reg", "finish_reg", "reset_reg"}

\* caller t is in a call that has not returned
InFlight(t) == t \in DOMAIN threads /\ threads[t].pc # "returned"

\* the frame of caller t becomes f
Frame(t, f) == threads' = (t :> f) @@ threads

\* the frame of a call that returned value: of the value, success and the metadata
\* with the snapshot are kept, the response text is not
returned_frame(c, value) ==
    [pc |-> "returned", call |-> c,
     result |-> [success |-> value.success, metadata |-> value.metadata]]

\* the frame of process_request once _route_request returned or raised r
thread_routed(c, s, r) ==
    IF r.exc # "" THEN [pc |-> "reset", call |-> c, i |-> 1, e |-> r.exc,
                        key |-> AgentKeys[1], status |-> reset_status(s.processing_status[AgentKeys[1]])]
    ELSE IF r.val \notin Agents
    THEN returned_frame(c, routing_failed(s).result)
    ELSE [pc |-> "mark", call |-> c, key |-> r.val, status |-> "processing"]

\* the frame after the second half of the set_status call at f.pc
after_set_status(f, s) ==
    IF f.pc = "mark_reg" THEN [pc |-> "enter", call |-> f.call, key |-> f.key, status |-> "processing"]
    ELSE IF f.pc = "enter_reg" THEN [pc |-> "body", call |-> f.call, key |-> f.key]
    ELSE IF f.pc = "finish_reg"
    THEN IF f.call.op = "process" THEN returned_frame(f.call, f.p.result)
         ELSE [pc |-> "wrap", call |-> f.call, key |-> f.key, p |-> f.p]
    ELSE IF f.i < Len(AgentKeys)
    THEN [pc |-> "reset", call |-> f.call, i |-> f.i + 1, e |-> f.e,
          key |-> AgentKeys[f.i + 1],
          status |-> reset_status(s.processing_status[AgentKeys[f.i + 1]])]
    ELSE [pc |-> "failed", call |-> f.call, e |-> f.e]

\* the frame once the try block of process completed or raised: p is what process
\* returns and p.status the status it sets before
finish_frame(c, key, p) ==
    [pc |-> "finish", call |-> c, key |-> key, status |-> p.status, p |-> p]

\* a caller that is not in a call calls process_request or an agent's process
Call(t) ==
    /\ ~InFlight(t)
    /\ \E c \in ThreadCalls :
         Frame(t, IF c.op = "process_request" THEN [pc |-> "route", call |-> c]
                  ELSE [pc |-> "enter", call |-> c, key |-> c.agent, status |-> "processing"])
    /\ UNCHANGED <<service, frame, writer, entry, apiKey, model, processing_status,
                   agent_status, backend, call, result>>

\* process_request, line 515, and line 539 when the key is no agent
ThreadRoutes(t) ==
    /\ InFlight(t) /\ threads[t].pc = "route"
    /\ Frame(t, thread_routed(threads[t].call, st,
                              route_request(threads[t].call.user_input, threads[t].call.file_content)))
    /\ UNCHANGED <<service, frame, writer, entry, apiKey, model, processing_status,
                   agent_status, backend, call, result>>

\* set_status, line 63, called from line 518, 69, 86, 100 or 548
WriteField(t) ==
    /\ InFlight(t) /\ threads[t].pc \in FieldSites
    /\ Statuses(field_written(st, threads[t].key, threads[t].status))
    /\ writer' = [writer EXCEPT ![threads[t].key].field = t]
    /\ Frame(t, [threads[t] EXCEPT !.pc = IF @ = "mark" THEN "mark_reg"
                                          ELSE IF @ = "enter" THEN "enter_reg"
                                          ELSE IF @ = "finish" THEN "finish_reg"
                                          ELSE "reset_reg"])
    /\ UNCHANGED <<service, frame, entry, apiKey, model, backend, call, result>>

\* set_status, lines 64-65: the registry entry is written and set_status returns
WriteRegistry(t) ==
    /\ InFlight(t) /\ threads[t].pc \in RegistrySites
    /\ Statuses(registry_written(st, threads[t].key, threads[t].status))
    /\ writer' = [writer EXCEPT ![threads[t].key].registry = t]
    /\ Frame(t, after_set_status(threads[t], st))
    /\ UNCHANGED <<service, frame, entry, apiKey, model, backend, call, result>>

\* process, lines 71-84 and 99: the try block builds context and response, or raises
ThreadResponds(t) ==
    /\ InFlight(t) /\ threads[t].pc = "body"
    /\ \E outcome \in BackendOutcomes :
         Frame(t, finish_frame(threads[t].call, threads[t].key,
                               process(AgentName(threads[t].key), threads[t].call.user_input,
                                       threads[t].call.file_content, model[threads[t].key],
                                       apiKey, outcome)))
    /\ UNCHANGED <<service, frame, writer, entry, apiKey, model, processing_status,
                   agent_status, backend, call, result>>

\* process_request, lines 526-538: the result with the snapshot get_agent_status reads
ThreadWraps(t) ==
    /\ InFlight(t) /\ threads[t].pc = "wrap"
    /\ Frame(t, returned_frame(threads[t].call,
                               request_done(st, threads[t].key, threads[t].call.file_content,
                                            apiKey, threads[t].p).result))
    /\ UNCHANGED <<service, frame, writer, entry, apiKey, model, processing_status,
                   agent_status, backend, call, result>>

\* process_request, lines 550-554: the except block returns
ThreadFails(t) ==
    /\ InFlight(t) /\ threads[t].pc = "failed"
    /\ Frame(t, returned_frame(threads[t].call, request_failed(st, threads[t].e).result))
    /\ UNCHANGED <<service, frame, writer, entry, apiKey, model, processing_status,
                   agent_status, backend, call, result>>

\* the thread of caller t executes its next statement
Run(t) ==
    \/ ThreadRoutes(t) \/ WriteField(t) \/ WriteRegistry(t)
    \/ ThreadResponds(t) \/ ThreadWraps(t) \/ ThreadFails(t)

\* the orchestrator was built without credential: every response comes from the
\* composer
InitThreads ==
    /\ Configured
    /\ ~apiKey
    /\ call = NoCall
    /\ result = Pending

NextThreads == \E t \in Callers : Call(t) \/ Run(t)

\* every thread that is in a call is scheduled again
SpecThreads == InitThreads /\ [][NextThreads]_vars /\ \A t \in Callers : WF_vars(Run(t))

(* ----------------- the requests the HTTP service answers -------------- *)

\* the answer of the service
Answer(response) == result' = [returned |-> TRUE, escaped |-> "", value |-> response]

\* the exchange a route stored for the orchestrator's result r
Exchange(via, message, r) ==
    [via |-> via, message |-> message, response |-> r.final_response,
     success |-> r.success, consulted |-> agents_used(r)]

\* a POST handler answers 500 after the orchestrator returned or raised o, and
\* nothing is stored
ChatFailed(o, e) ==
    /\ Statuses(o.st)
    /\ backend' = o.backend
    /\ Answer(http_error(500, <<"Error processing request: ", e>>))
    /\ UNCHANGED <<db, now, posted>>

\* POST /api/chat answers 200: the orchestrator returned o for the upload up and
\* the exchange is stored under session_id
ChatStored(req, session_id, up, o) ==
    /\ Statuses(o.st)
    /\ backend' = o.backend
    /\ db' = chat_stored(db, session_id, req.message, up, o.result, now + 1)
    /\ now' = now + 1
    /\ posted' = [posted EXCEPT ![session_id] =
                      Append(@, Exchange("POST /api/chat", req.message, o.result))]
    /\ Answer(chat_response(session_id, <<db.serial.conversations + 1>>, o.result))

\* lines 565-631 of POST /api/chat once the upload up is read
ChatAnswered(req, session_id, up, o) ==
    IF o.escaped # "" THEN ChatFailed(o, o.escaped) ELSE ChatStored(req, session_id, up, o)

\* the session id a handler works with: the one sent, or str(uuid.uuid4())
SessionIdOf(req) ==
    IF req.session_id # "" THEN {req.session_id}
    ELSE {u \in FreshIds : SessionRows(db, u) = {} /\ ConversationRows(db, u) = {}}

\* POST /api/chat: the second chat_with_agents, lines 533-631
PostApiChat ==
    /\ db.serial.conversations < MaxPosts
    /\ \E req \in ChatRequests, outcome \in HttpOutcomes :
       \E session_id \in SessionIdOf(req) :
          /\ call' = req
          /\ IF read_upload(req.file_id).exc # ""
             THEN /\ Answer(http_error(500, <<"Error processing request: ",
                                              read_upload(req.file_id).exc>>))
                  /\ UNCHANGED <<processing_status, agent_status, backend, service>>
             ELSE ChatAnswered(req, session_id, read_upload(req.file_id).val,
                               process_request(st, Str(req.message),
                                               read_upload(req.file_id).val.file_content,
                                               model, apiKey, outcome))
    /\ UNCHANGED <<frame, concurrent, entry, apiKey, model>>

\* POST /chat stored its rows; building its ChatResponse without message_id and
\* timestamp then raises, and it answers 500
LegacyStored(req, session_id, o) ==
    /\ Statuses(o.st)
    /\ backend' = o.backend
    /\ db' = legacy_stored(db, session_id, req.message, o.result, now + 1)
    /\ now' = now + 1
    /\ posted' = [posted EXCEPT ![session_id] =
                      Append(@, Exchange("POST /chat", req.message, o.result))]
    /\ Answer(http_error(500, <<"Error processing request: ", "ValidationError">>))

\* lines 156-201 of POST /chat once the orchestrator returned or raised o: in a
\* store with the foreign keys the commit of a conversation whose session_id names
\* no session raises
LegacyAnswered(req, session_id, o) ==
    IF o.escaped # "" THEN ChatFailed(o, o.escaped)
    ELSE IF db.foreign_keys /\ SessionRows(db, session_id) = {}
    THEN ChatFailed(o, "IntegrityError")
    ELSE LegacyStored(req, session_id, o)

\* POST /chat: the first chat_with_agents, lines 153-201
PostChat ==
    /\ db.serial.conversations < MaxPosts
    /\ \E req \in LegacyRequests, outcome \in HttpOutcomes :
       \E session_id \in SessionIdOf(req) :
          /\ call' = req
          /\ LegacyAnswered(req, session_id,
                            process_request(st, Str(req.message), None, model, apiKey, outcome))
    /\ UNCHANGED <<frame, concurrent, entry, apiKey, model>>

\* GET /api/chat/session/{session_id}
GetSession ==
    /\ \E req \in SessionRequests("GET /api/chat/session") :
          /\ call' = req
          /\ Answer(get_session_messages(db, req.session_id))
    /\ UNCHANGED <<frame, concurrent, entry, apiKey, model, processing_status, agent_status, backend, service>>

\* DELETE /api/chat/session/{session_id}
DeleteSession ==
    /\ \E req \in SessionRequests("DELETE /api/chat/session") :
          /\ call' = req
          /\ IF delete_session(db, req.session_id).exc # ""
             THEN /\ Answer(http_error(500, "Internal Server Error"))
                  /\ UNCHANGED <<db, posted>>
             ELSE /\ db' = delete_session(db, req.session_id).val
                  /\ posted' = [posted EXCEPT ![req.session_id] = << >>]
                  /\ Answer([status |-> 200,
                             body |-> [message |-> "Session deleted successfully"]])
    /\ UNCHANGED <<frame, concurrent, entry, apiKey, model, processing_status, agent_status, backend, now>>

InitHttp ==
    /\ Constructed
    /\ \A a \in Agents : model[a] = apiKey
    /\ db \in Stores
    /\ call = NoCall
    /\ result = Pending

NextHttp == PostApiChat \/ PostChat \/ GetSession \/ DeleteSession

SpecHttp == InitHttp /\ [][NextHttp]_vars

(* =============================== claims =============================== *)

\* a call of _route_request with a string request text and an optional string
\* file excerpt has returned or raised
Routed ==
    /\ call.op = "route_request" /\ result.returned
    /\ IsStr(call.user_input)
    /\ call.file_content.kind \in {"none", "str"}

\* the lower-cased request text and file excerpt of the call
TextLower == Lower(call.user_input.s)

FileLower == Lower(call.file_content.s)

\* the agent keys whose gate keywords occur in the request text
Gated == {a \in Agents : AnyIn(GateKeywords(AgentName(a)), TextLower)}

\* every keyword of agent a: its gate keywords and its scoring keywords of all tiers
AllKeywords(a) ==
    GateKeywords(AgentName(a)) \o ScoreKeywords(a).high \o ScoreKeywords(a).medium
    \o ScoreKeywords(a).low

\* C1: for every request text and every optional file excerpt (absent, empty or
\* non-empty) _route_request raises nothing and returns one of the configured
\* agent keys nlp, code, data.
C1_RouteTotal ==
    Routed => result.escaped = "" /\ result.value \in {"nlp", "code", "data"}

\* C1 witness: a routed request with no excerpt and no gate keyword got the default
C1_Witness ==
    /\ Routed /\ call.file_content = None /\ Gated = {}
    /\ result.escaped = "" /\ result.value = "nlp"

\* C2: with a non-empty file excerpt the result is data if the excerpt holds one of
\* ',', csv, json, data, dataset and the request holds one of analyze, data,
\* statistics, chart, visualization; otherwise code if the excerpt holds one of
\* 'def ', function, 'class ', import, 'from '; otherwise nlp: the keyword scores
\* of the request text play no part.
C2_FileBranch ==
    (Routed /\ Truthy(call.file_content)) =>
        LET dataFile == AnyIn(<< <<",">>, <<"c","s","v">>, <<"j","s","o","n">>, <<"d","a","t","a">>, <<"d","a","t","a","s","e","t">> >>, FileLower)
            intent == AnyIn(<< <<"a","n","a","l","y","z","e">>, <<"d","a","t","a">>, <<"s","t","a","t","i","s","t","i","c","s">>, <<"c","h","a","r","t">>, <<"v","i","s","u","a","l","i","z","a","t","i","o","n">> >>,
                            TextLower)
            codeFile == AnyIn(<< <<"d","e","f"," ">>, <<"f","u","n","c","t","i","o","n">>, <<"c","l","a","s","s"," ">>, <<"i","m","p","o","r","t">>, <<"f","r","o","m"," ">> >>, FileLower)
        IN  result.value = IF dataFile /\ intent THEN "data"
                           ELSE IF codeFile THEN "code"
                           ELSE "nlp"

\* C2 witness: a comma-separated excerpt and a request holding 'analyze' select
\* data although the request text scores highest for another agent
C2_Witness ==
    /\ Routed /\ Truthy(call.file_content)
    /\ Contains(<<",">>, FileLower) /\ Contains(<<"a","n","a","l","y","z","e">>, TextLower)
    /\ Contains(<<"f","u","n","c","t","i","o","n">>, TextLower)
    /\ route_request(call.user_input, None).val # "data"
    /\ result.value = "data"

\* the excerpt holds 'def ', 'class ' or 'import'
CodeExcerpt ==
    /\ Truthy(call.file_content)
    /\ AnyIn(<< <<"d","e","f"," ">>, <<"c","l","a","s","s"," ">>, <<"i","m","p","o","r","t">> >>, FileLower)

\* the excerpt holds a data token and the request an analysis-intent keyword
DataIntent ==
    /\ AnyIn(DataPatterns, FileLower)
    /\ AnyIn(AnalysisKeywords, TextLower)

\* C3 as stated: an excerpt holding 'def ', 'class ' or 'import' selects the code
\* agent for every request text.
C3_Original == (Routed /\ CodeExcerpt) => result.value = "code"

\* C3 amended: an excerpt holding 'def ', 'class ' or 'import' selects the code
\* agent, whatever the scores of the request text, unless the excerpt also holds a
\* data token and the request an analysis-intent keyword; then data is selected.
C3_CodeExcerpt ==
    (Routed /\ CodeExcerpt) =>
        result.value = IF DataIntent THEN "data" ELSE "code"

\* C3 witness: a code excerpt selects code although the request text alone is
\* routed to nlp
C3_Witness ==
    /\ Routed /\ CodeExcerpt /\ ~DataIntent
    /\ route_request(call.user_input, None).val = "nlp"
    /\ Gated # {}
    /\ result.value = "code"

\* the request holds a high-tier keyword of agent a and no keyword of another agent
OnlyHighOf(a) ==
    /\ AnyIn(ScoreKeywords(a).high, TextLower)
    /\ \A b \in Agents \ {a} : ~AnyIn(AllKeywords(b), TextLower)

\* C4: with no file excerpt, a request that holds a high-tier keyword of agent A
\* and no gate or scoring keyword of any other agent is routed to A.
C4_OnlyHighTier ==
    (Routed /\ ~Truthy(call.file_content)) =>
        \A a \in Agents : OnlyHighOf(a) => result.value = a

\* C4 witness: such a request for the data agent
C4_Witness ==
    /\ Routed /\ call.file_content = None
    /\ OnlyHighOf("data") /\ result.value = "data"

\* the score of agent a for the request text of the call
ScoreOf(a) == calculate_enhanced_score(call.user_input, a)

\* C5: with no file excerpt the candidates are the agents whose gate keywords occur
\* in the request; with no candidate the default nlp is returned, otherwise a
\* candidate of maximal score among the candidates, whatever the agents that
\* failed the gate score.
C5_GateThenMax ==
    (Routed /\ ~Truthy(call.file_content)) =>
        IF Gated = {} THEN result.value = "nlp"
        ELSE /\ result.value \in Gated
             /\ \A b \in Gated : ~FLess(ScoreOf(result.value), ScoreOf(b))

\* C5 witness: an agent that failed the gate scores more than every candidate and
\* is not returned
C5_Witness ==
    /\ Routed /\ call.file_content = None /\ Gated # {}
    /\ \E a \in Agents \ Gated : \A b \in Gated : FLess(ScoreOf(b), ScoreOf(a))
    /\ result.value \in Gated

\* a call of process, made directly or by process_request, has returned
AgentReturned ==
    /\ result.returned
    /\ \/ call.op = "process"
       \/ call.op = "process_request" /\ "agent_responses" \in DOMAIN result.value

\* the result of that call of process and the key of its agent
AgentResult ==
    IF call.op = "process" THEN result.value ELSE result.value.agent_responses[1]

ActingAgent ==
    IF call.op = "process" THEN call.agent ELSE result.value.metadata.selected_agent

\* the response text the caller of the returned call gets
ResponseOf(v) == IF call.op = "process" THEN v.response ELSE v.final_response

\* the arguments of the call are a string and an optional string
WellTyped ==
    /\ IsStr(call.user_input)
    /\ call.file_content.kind \in {"none", "str"}

\* the backend call of the returned call raised
BackendFault == backend.called /\ backend.raises

\* the response text of the returned call was built by the composer
ComposerUsed == ~backend.called \/ backend.raises

\* a truthy file excerpt that is no string: slicing it (process) or lower-casing
\* it (_route_request) raises
FileFault == call.file_content.kind = "int"

\* a request text that is no string and is read: by _route_request, or by the nlp or
\* code composer when no file excerpt is there
TextFault ==
    /\ ~IsStr(call.user_input)
    /\ \/ call.op = "process_request"
       \/ call.agent \in {"nlp", "code"} /\ ~Truthy(call.file_content) /\ ComposerUsed

\* the returned result reports a failure: success=false, a message, the cause
Failure(v) ==
    /\ ~v.success
    /\ Len(ResponseOf(v)) > 0
    /\ "error" \in DOMAIN v.metadata /\ v.metadata.error # ""

\* a call of process_request or of an agent's process has returned
Answered == result.returned /\ call.op \in {"process_request", "process"}

\* C6 as stated: no exception leaves process_request or process, and every internal
\* fault, a failing backend included, is returned as success=false with a message
\* and the cause in metadata.error.
C6_Original ==
    Answered =>
        /\ result.escaped = ""
        /\ (TextFault \/ FileFault \/ BackendFault) => Failure(result.value)

\* C6 amended: no exception leaves process_request or process; a fault raised
\* outside the backend call (a non-string request text or file excerpt that is
\* read) is returned as success=false with a message and the cause in
\* metadata.error; a failing backend call alone is absorbed by the composer and
\* returned as success=true without an error in the metadata.
C6_NoEscape ==
    Answered =>
        /\ result.escaped = ""
        /\ (TextFault \/ FileFault) => Failure(result.value)
        /\ ~result.value.success => Failure(result.value)
        /\ (BackendFault /\ ~TextFault /\ ~FileFault) =>
               result.value.success /\ "error" \notin DOMAIN result.value.metadata

\* C6 witness: process_request was called with a request text that is no string
\* and returned a failure
C6_Witness ==
    /\ Answered /\ call.op = "process_request" /\ call.user_input = None
    /\ result.escaped = "" /\ Failure(result.value)

\* what process returns for the arguments of the call when no backend is configured
ComposerResult ==
    process(AgentName(ActingAgent), call.user_input, call.file_content, FALSE, FALSE,
            [raises |-> TRUE, text |-> << >>]).result

\* C7: when the backend is configured and its call raises, process returns
\* success=true with the response text it returns for the same request text and
\* file excerpt when no backend is configured, and reports no error.
C7_BackendFailureFallsBack ==
    (AgentReturned /\ WellTyped /\ BackendFault) =>
        /\ AgentResult.success
        /\ ComposerResult.success
        /\ AgentResult.response = ComposerResult.response
        /\ "error" \notin DOMAIN AgentResult.metadata

\* C7 witness: the backend call raised for a request with a file excerpt and the
\* file preview of the composer was returned
C7_Witness ==
    /\ AgentReturned /\ WellTyped /\ BackendFault /\ Truthy(call.file_content)
    /\ AgentResult.success
    /\ AgentResult.response = file_based_fallback(AgentName(ActingAgent), call.user_input,
                                                  call.file_content).val

\* C8: with no backend configured process returns success=true and a non-empty
\* response, for each agent, every string request text (the empty one included)
\* and every optional string file excerpt.
C8_ComposerTotal ==
    (AgentReturned /\ WellTyped /\ ~UsesBackend(model[ActingAgent], apiKey)) =>
        AgentResult.success /\ Len(AgentResult.response) > 0

\* C8 witness: the nlp agent answered the empty request text with no backend
C8_Witness ==
    /\ AgentReturned /\ call.op = "process" /\ call.agent = "nlp"
    /\ call.user_input = Str(<< >>) /\ call.file_content = None
    /\ ~apiKey
    /\ AgentResult.success /\ Len(AgentResult.response) > 0

\* C9 as stated: metadata.model reads 'fallback' whenever the composer built the
\* response text (no backend, or the backend call failed) and the model name only
\* when the backend built it.
C9_Original ==
    (AgentReturned /\ AgentResult.success) =>
        /\ ComposerUsed => AgentResult.metadata.model = "fallback"
        /\ ~ComposerUsed => AgentResult.metadata.model = ModelName

\* C10 as stated: when the backend call fails the composer resolves it and the
\* agent has status error when the call returns.
C10_Original ==
    (AgentReturned /\ WellTyped /\ BackendFault) =>
        /\ AgentResult.success
        /\ processing_status[ActingAgent] = "error"

\* the status of the agent of the returned call is the one its result implies, and
\* a backend failure the composer resolved leaves idle
C10_StatusByResult ==
    AgentReturned =>
        /\ processing_status[ActingAgent] = IF AgentResult.success THEN "idle" ELSE "error"
        /\ agent_status[AgentName(ActingAgent)] = processing_status[ActingAgent]
        /\ (WellTyped /\ BackendFault) =>
               /\ AgentResult.success
               /\ AgentResult.response = ComposerResult.response
               /\ processing_status[ActingAgent] = "idle"

\* a call of process for agent a returns success=true in this step
Succeeds(a) ==
    /\ result = Pending /\ result' # Pending
    /\ AgentReturned' /\ ActingAgent' = a /\ AgentResult'.success

\* C10 amended: when the backend call fails the composer resolves it, process
\* returns success=true and the agent's status is idle, not error, when the call
\* returns; the status is error after a call exactly when process returned
\* success=false, and the next request the agent processes successfully sets it
\* back to idle.
C10_StatusAfterBackendFailure ==
    /\ []C10_StatusByResult
    /\ [][\A a \in Agents :
            (processing_status[a] = "error" /\ Succeeds(a)) => processing_status'[a] = "idle"]_vars

\* C10 witness: the backend call raised, the composer answered and the agent is idle
C10_Witness ==
    /\ AgentReturned /\ WellTyped /\ BackendFault
    /\ AgentResult.success /\ AgentResult.response = ComposerResult.response
    /\ processing_status[ActingAgent] = "idle"

\* the response text of the returned call of process or of the sentiment report
Report == IF call.op = "analyze_sentiment" THEN result.value ELSE AgentResult.response

\* a sentiment report has been returned
Reported ==
    /\ result.returned /\ (call.op = "analyze_sentiment" \/ AgentReturned)
    /\ Len(Report) > 0
    /\ Report[1] = "## Sentiment Analysis Results: Text Analyzed"

\* position of the template piece e in a response text
IndexOf(resp, e) == Min({i \in 1..Len(resp) : resp[i] = e})

\* the fields of a sentiment report
ReportText == SubSeq(Report, 2, IndexOf(Report, "Overall Sentiment") - 1)

ReportLabel == Report[IndexOf(Report, "Overall Sentiment") + 1]

ReportConfidence == Report[IndexOf(Report, "Confidence Level") + 1]

ReportIndicators ==
    SubSeq(Report, IndexOf(Report, "Key Indicators") + 1, IndexOf(Report, "Detailed Insights") - 1)

\* how many words of the list occur in the lower-cased text, each counted once
CountIn(words, low) == Cardinality({i \in DOMAIN words : Contains(words[i], low)})

\* the label the counts of the lower-cased text give
LabelOf(low) ==
    IF CountIn(negative_words, low) > CountIn(positive_words, low) THEN "Negative"
    ELSE IF CountIn(positive_words, low) > CountIn(negative_words, low) THEN "Positive"
    ELSE "Neutral"

\* the list that wins in the lower-cased text and its count
WinningWords(low) == IF LabelOf(low) = "Negative" THEN negative_words ELSE positive_words

\* C12: with p and n the numbers of positive-list and negative-list words found in
\* the lower-cased target text, each listed word counted once, the report's label
\* is Negative if n > p, Positive if p > n and Neutral if p = n; its confidence is
\* High exactly when the label is not Neutral and the winning count exceeds 1,
\* else Moderate; its indicators are the matched words of the winning list, none
\* for Neutral.
C12_LabelByCounts ==
    Reported =>
        /\ ReportLabel = LabelOf(Lower(ReportText))
        /\ ReportConfidence =
               IF /\ ReportLabel # "Neutral"
                  /\ CountIn(WinningWords(Lower(ReportText)), Lower(ReportText)) > 1
               THEN "High" ELSE "Moderate"
        /\ ReportIndicators =
               IF ReportLabel = "Neutral" THEN <<"Neutral language patterns">>
               ELSE Join(Matched(WinningWords(Lower(ReportText)), Lower(ReportText)))

\* C12 witness: 'This is terrible and awful' was reported Negative with confidence
\* High and the indicators terrible, awful
C12_Witness ==
    /\ Reported /\ call.op = "analyze_sentiment"
    /\ call.user_input = Str(<<"T","h","i","s"," ","i","s"," ","t","e","r","r","i","b","l","e"," ","a","n","d"," ","a","w","f","u","l">>)
    /\ ReportLabel = "Negative" /\ ReportConfidence = "High"
    /\ ReportIndicators = <<"t","e","r","r","i","b","l","e",","," ","a","w","f","u","l">>

\* C12 witness of the neutral case: a text with no listed word
C12_WitnessNeutral ==
    /\ Reported /\ call.user_input = Str(<<"T","h","e"," ","m","e","e","t","i","n","g"," ","i","s"," ","a","t"," ","n","o","o","n">>)
    /\ ReportLabel = "Neutral" /\ ReportConfidence = "Moderate"
    /\ ReportIndicators = <<"Neutral language patterns">>

\* the request text of the call
RequestText == call.user_input.s

\* the request holds the lower-case word w at position p, whatever its case
WordAt(s, w, p) ==
    /\ p + Len(w) - 1 <= Len(s)
    /\ SubSeq(Lower(s), p, p + Len(w) - 1) = w

\* the request has a double-quoted substring; the first one
HasQuoted(s) == Cardinality(QuoteAt(s)) >= 2

FirstQuoted(s) ==
    SubSeq(s, Min(QuoteAt(s)) + 1, Min(QuoteAt(s) \ {Min(QuoteAt(s))}) - 1)

\* the positions of 'text:' in the request, and what follows the first one
TextColonAt(s) == {p \in 1..Len(s) : WordAt(s, <<"t","e","x","t",":">>, p)}

AfterTextColon(s) == SubSeq(s, Min(TextColonAt(s)) + 5, Len(s))

\* the target text C13 states
StatedTarget(s) ==
    IF HasQuoted(s) THEN FirstQuoted(s)
    ELSE IF TextColonAt(s) # {} THEN AfterTextColon(s)
    ELSE s

MarkerEnds(s) ==
    {e \in 1..Len(s) :
        /\ \/ e >= 4 /\ WordAt(s, <<"t","e","x","t">>, e - 3)
           \/ e >= 9 /\ WordAt(s, <<"s","e","n","t","i","m","e","n","t">>, e - 8)
        /\ e + 2 <= Len(s)
        /\ IsSep(s[e + 1])}

\* the first character after the run of colons and blanks that follows position e,
\* or the last character of the request when the run reaches its end
AfterMarker(s, e) == Min({i \in (e + 2)..Len(s) : ~IsSep(s[i]) \/ i = Len(s)})

\* the target text of the amended C13
AmendedTarget(s) ==
    IF HasQuoted(s) THEN FirstQuoted(s)
    ELSE IF MarkerEnds(s) # {} THEN Strip(SubSeq(s, AfterMarker(s, Min(MarkerEnds(s))), Len(s)))
    ELSE s

C13_WitnessQuoted ==
    /\ Reported
    /\ RequestText = <<"S","e","n","t","i","m","e","n","t",":"," ","\"","l","o","v","e","\"">>
    /\ ReportText = <<"l","o","v","e">>

\* the nlp agent's process has returned for a string request text, no file excerpt
\* and no backend
NlpComposed ==
    /\ AgentReturned /\ ActingAgent = "nlp" /\ WellTyped
    /\ ~Truthy(call.file_content)
    /\ ~UsesBackend(model["nlp"], apiKey)

\* the request text of the example of C14
LoveRequest == Str(<<"S","e","n","t","i","m","e","n","t",":"," ","\"","I"," ","l","o","v","e"," ","t","h","i","s"," ","p","r","o","d","u","c","t","\"">>)

\* C14: with no backend and no file excerpt the nlp agent answers with the
\* sentiment report exactly when the lower-cased request contains 'sentiment' and
\* with the NLP capability menu otherwise; process_request routes
\* Sentiment: "I love this product" to nlp and reports Positive, Moderate and the
\* one indicator love.
C14_SentimentTrigger ==
    /\ (result.returned /\ call.op = "process_request" /\ call.user_input = LoveRequest
        /\ call.file_content.kind \in {"none", "str"} /\ ~Truthy(call.file_content)) =>
           AgentReturned /\ ActingAgent = "nlp"
    /\ NlpComposed =>
        /\ AgentResult.success
        /\ Contains(<<"s","e","n","t","i","m","e","n","t">>, Lower(RequestText)) <=> Reported
        /\ ~Contains(<<"s","e","n","t","i","m","e","n","t">>, Lower(RequestText)) <=>
               AgentResult.response = <<"## Natural Language Processing Assistant">>
        /\ (call.op = "process_request" /\ call.user_input = LoveRequest) =>
               /\ ReportLabel = "Positive" /\ ReportConfidence = "Moderate"
               /\ ReportIndicators = <<"l","o","v","e">>

\* C14 witness: process_request answered Sentiment: "I love this product" through
\* the nlp agent's composer with Positive, Moderate, love
C14_Witness ==
    /\ NlpComposed /\ call.op = "process_request" /\ call.user_input = LoveRequest
    /\ Reported /\ ReportLabel = "Positive" /\ ReportConfidence = "Moderate"
    /\ ReportIndicators = <<"l","o","v","e">>

\* the code agent's process has returned for a string request text, no file
\* excerpt and no backend; the same for the data agent
CodeComposed ==
    /\ AgentReturned /\ ActingAgent = "code" /\ WellTyped
    /\ ~Truthy(call.file_content)
    /\ ~UsesBackend(model["code"], apiKey)

DataComposed ==
    /\ AgentReturned /\ ActingAgent = "data" /\ WellTyped
    /\ ~Truthy(call.file_content)
    /\ ~UsesBackend(model["data"], apiKey)

\* the responses of the code composer that ask for the language and the goal: the
\* capability menu and the one-line prompt
CodePrompts ==
    { <<"## Programming Assistant">>,
      <<"I can help you generate code! Please specify the programming language and what you'd like to create.">> }

\* C15 as stated: with no backend and no file excerpt the code agent answers a
\* request that names a known language (python, javascript, java, cpp, c++) and
\* holds 'function' with the fixed snippet and every other request with the
\* generic prompt; the data agent answers every request with the same menu.
C15_Original ==
    /\ CodeComposed =>
           IF AnyIn(Languages, Lower(RequestText)) /\ Contains(<<"f","u","n","c","t","i","o","n">>, Lower(RequestText))
           THEN AgentResult.response = <<"## Python Function Example">>
           ELSE AgentResult.response \in CodePrompts
    /\ DataComposed => AgentResult.response = <<"## Data Science Assistant">>

\* a call of process with a string request text and a non-empty string file
\* excerpt has returned
FileProcessed == AgentReturned /\ WellTyped /\ Truthy(call.file_content)

\* the heading of the file preview of the acting agent
PreviewHeading ==
    IF ActingAgent = "nlp" THEN "## Document Analysis: File Content Preview"
    ELSE IF ActingAgent = "code" THEN "## Code Analysis: File Content Preview"
    ELSE "## Data Analysis: File Content Preview"

\* the characters of the excerpt a file preview embeds
PreviewOf(resp) == SubSeq(resp, 2, Len(resp) - 1)

\* the characters of the excerpt the prompt sent to the backend carries
PromptExcerpt ==
    SubSeq(backend.prompt, IndexOf(backend.prompt, "File Content (first 2000 chars):") + 1,
           Len(backend.prompt) - 1)

\* C16: with a non-empty file excerpt the composer returns the acting agent's file
\* preview whatever the request text says, the preview embeds the first 500
\* characters of the excerpt and no more, and the context record and the prompt
\* sent to the backend carry its first 2000 characters and no more, whatever the
\* length of the excerpt.
C16_FilePreviewAndLimits ==
    FileProcessed =>
        /\ AgentResult.success
        /\ AgentResult.metadata.context.file_content =
               Str(SubSeq(call.file_content.s, 1, Min({ContextLimit, Len(call.file_content.s)})))
        /\ ComposerUsed =>
               /\ AgentResult.response[1] = PreviewHeading
               /\ PreviewOf(AgentResult.response) =
                      SubSeq(call.file_content.s, 1, Min({PreviewLimit, Len(call.file_content.s)}))
               /\ Len(PreviewOf(AgentResult.response)) <= PreviewLimit
        /\ backend.called =>
               /\ PromptExcerpt =
                      SubSeq(call.file_content.s, 1, Min({ContextLimit, Len(call.file_content.s)}))
               /\ Len(PromptExcerpt) <= ContextLimit

\* C16 witness: a request holding 'python function' came with an excerpt longer than
\* 2000 characters, the backend call raised and the composer answered with a preview
\* of 500 characters; context and prompt hold 2000 characters
C16_Witness ==
    /\ FileProcessed /\ BackendFault
    /\ Len(call.file_content.s) > ContextLimit
    /\ Contains(<<"p","y","t","h","o","n"," ","f","u","n","c","t","i","o","n">>, Lower(RequestText))
    /\ AgentResult.response[1] = PreviewHeading
    /\ Len(PreviewOf(AgentResult.response)) = PreviewLimit
    /\ Len(AgentResult.metadata.context.file_content.s) = ContextLimit
    /\ Len(PromptExcerpt) = ContextLimit

\* process_request has returned for a request text that is empty or holds only
\* blanks, with no file excerpt and no backend
BlankRequest ==
    /\ result.returned /\ call.op = "process_request"
    /\ IsStr(call.user_input) /\ Strip(call.user_input.s) = << >>
    /\ call.file_content.kind \in {"none", "str"} /\ ~Truthy(call.file_content)
    /\ ~UsesBackend(model["nlp"], apiKey)

\* C17: for an empty or blank request text with no file excerpt and no backend
\* process_request raises nothing and returns success=true, the nlp agent selected
\* and the NLP capability menu as response.
C17_BlankRequestGetsMenu ==
    BlankRequest =>
        /\ result.escaped = ""
        /\ result.value.success
        /\ "selected_agent" \in DOMAIN result.value.metadata
        /\ result.value.metadata.selected_agent = "nlp"
        /\ result.value.final_response = <<"## Natural Language Processing Assistant">>

\* C17 witness: process_request answered a request text of three blanks with the
\* NLP capability menu
C17_Witness ==
    /\ BlankRequest /\ call.user_input = Str(<<" "," "," ">>)
    /\ result.value.success
    /\ result.value.metadata.selected_agent = "nlp"
    /\ result.value.final_response = <<"## Natural Language Processing Assistant">>

\* process_request has returned a result that went through an agent
ThroughAgent ==
    /\ result.returned /\ call.op = "process_request"
    /\ "agent_responses" \in DOMAIN result.value

\* the key the returned result names as selected
SelectedKey == result.value.metadata.selected_agent

\* C18: a process_request result that went through an agent names one agent: the
\* key _route_request returns is metadata.selected_agent, the one element of
\* agents_consulted and routing_decision.selected; agent_responses holds that
\* agent's one result; success and final_response are that result's success and
\* response; file_processed is true exactly when a file excerpt was passed.
C18_OneAgentNamed ==
    ThroughAgent =>
        /\ SelectedKey \in Agents
        /\ route_request(call.user_input, call.file_content) = Returned(SelectedKey)
        /\ result.value.metadata.agents_consulted = <<SelectedKey>>
        /\ result.value.metadata.routing_decision.selected = SelectedKey
        /\ Len(result.value.agent_responses) = 1
        /\ result.value.agent_responses[1].agent = AgentName(SelectedKey)
        /\ \E outcome \in BackendOutcomes :
               result.value.agent_responses[1] =
                   process(AgentName(SelectedKey), call.user_input, call.file_content,
                           model[SelectedKey], apiKey, outcome).result
        /\ result.value.success = result.value.agent_responses[1].success
        /\ result.value.final_response = result.value.agent_responses[1].response
        /\ result.value.metadata.file_processed <=> call.file_content # None

\* C18 witness: process_request was given the empty string as file excerpt and
\* returned a result of the nlp agent with file_processed true
C18_Witness ==
    /\ ThroughAgent /\ call.file_content = Str(<< >>)
    /\ SelectedKey = "nlp"
    /\ result.value.agent_responses[1].agent = "nlp_agent"
    /\ result.value.success
    /\ result.value.metadata.file_processed

\* get_agent_status has returned its snapshot
Snapshot == result.returned /\ call.op = "get_agent_status"

\* C19: every snapshot of get_agent_status lists the three configured agents, with
\* total_agents = 3 entries, each entry with the status its agent has when the
\* call is made, so that a status set by an earlier request shows; the backend
\* flag reads configured exactly when the credential is set, else missing.
C19_SnapshotIsCurrent ==
    /\ Snapshot =>
           /\ result.value.total_agents = 3
           /\ Len(result.value.available_agents) = 3
           /\ {result.value.available_agents[i].name : i \in 1..3}
                  = {"nlp_agent", "code_agent", "data_agent"}
           /\ \A i \in 1..3 : \A a \in Agents :
                  result.value.available_agents[i].name = AgentName(a) =>
                      result.value.available_agents[i].status = processing_status[a]
           /\ result.value.api_status = IF apiKey THEN "configured" ELSE "missing"
    /\ \A a \in Agents : processing_status[a] \in Status

\* C19 witness: a snapshot shows the error an earlier call left on the code agent
\* next to idle agents
C19_Witness ==
    /\ Snapshot
    /\ \E i \in 1..3 : /\ result.value.available_agents[i].name = "code_agent"
                       /\ result.value.available_agents[i].status = "error"
    /\ \E i \in 1..3 : result.value.available_agents[i].status = "idle"
    /\ processing_status["code"] = "error"

\* process of the agent frame.key has been entered and has not returned
InProcess == frame.pc \in {"context", "respond", "backend", "done", "except"}

\* process has returned: to process_request or to the caller
ProcessReturned ==
    \/ frame.pc = "wrap"
    \/ result.returned /\ call.op = "process"

ReturnedKey == IF frame.pc = "wrap" THEN frame.key ELSE call.agent

ReturnedResult == IF frame.pc = "wrap" THEN frame.p ELSE result.value

\* in every state: status processing from the first statement of process to its
\* last set_status; the status its result implies once process has returned; no
\* agent processing once the call has returned
C11_StatusInState ==
    /\ InProcess => processing_status[frame.key] = "processing"
    /\ frame.pc = "enter" => ~backend.called /\ "ctx" \notin DOMAIN frame
    /\ ProcessReturned =>
           processing_status[ReturnedKey] = IF ReturnedResult.success THEN "idle" ELSE "error"
    /\ result.returned => \A a \in Agents : processing_status[a] # "processing"

\* in every step: the first statement of process sets processing; the context is
\* built and the backend is called under status processing
C11_StatusInStep ==
    /\ frame.pc = "enter" =>
           /\ frame'.pc = "context"
           /\ processing_status'[frame.key] = "processing"
           /\ backend' = backend
    /\ ("ctx" \notin DOMAIN frame /\ "ctx" \in DOMAIN frame') =>
           processing_status[frame.key] = "processing"
    /\ (~backend.called /\ backend'.called) => processing_status[frame.key] = "processing"

\* C11: with one caller, every call of process first sets the agent's status to
\* processing, before the context is built and before the backend is called; when
\* it returns the status is idle if it returns success=true and error if it
\* returns success=false; the backend call returning, a status processing does
\* not last and no status is processing once the call has returned.
C11_StatusDiscipline ==
    /\ []C11_StatusInState
    /\ [][C11_StatusInStep]_vars
    /\ \A a \in Agents :
           (processing_status[a] = "processing") ~> (processing_status[a] # "processing")

\* C11 witness: process called the backend under status processing and returned
\* success=true with status idle
C11_Witness ==
    /\ result.returned /\ call.op = "process"
    /\ backend.called /\ ~backend.raises
    /\ result.value.success
    /\ processing_status[call.agent] = "idle"

(* ---- C20: the HTTP service persists each exchange ---- *)

\* the exchanges POST /api/chat stored under the id since the id was last deleted
ApiPosts(sid) == SelectSeq(posted[sid], LAMBDA e : e.via = "POST /api/chat")

\* what GET /api/chat/session/{sid} answers now
History(sid) == get_session_messages(db, sid)

\* the execution rows of a conversation
ExecutionsOf(conv) == {e \in db.agent_executions : e.conversation_id = conv.id}

\* one session row for the id, titled by the first exchange
OneSession(sid, posts) ==
    /\ Cardinality(SessionRows(db, sid)) = 1
    /\ \A s \in SessionRows(db, sid) : s.title = title_of(posts[1].message)

\* the history lists the exchanges in call order, the user message and then its reply
HistoryShows(sid, posts) ==
    /\ History(sid).status = 200
    /\ History(sid).body.message_count = Len(posts)
    /\ Len(History(sid).body.messages) = 2 * Len(posts)
    /\ \A i \in 1..Len(posts) :
          /\ 2 * i <= Len(History(sid).body.messages)
          /\ History(sid).body.messages[2 * i - 1].type = "user"
          /\ History(sid).body.messages[2 * i - 1].content = posts[i].message
          /\ History(sid).body.messages[2 * i].type = "agent"
          /\ History(sid).body.messages[2 * i].content = posts[i].response

\* the i-th conversation of the session has one execution row for each agent the
\* i-th exchange consulted, with status success exactly when the result succeeded
ExecutionsShow(sid, posts) ==
    \A i \in 1..Len(posts) :
       /\ i <= Len(by_created_at(ConversationRows(db, sid)))
       /\ Cardinality(ExecutionsOf(by_created_at(ConversationRows(db, sid))[i]))
              = Len(posts[i].consulted)
       /\ \A k \in 1..Len(posts[i].consulted) :
             Cardinality({e \in ExecutionsOf(by_created_at(ConversationRows(db, sid))[i]) :
                              e.agent_name = posts[i].consulted[k]})
                 = Cardinality({j \in 1..Len(posts[i].consulted) :
                                    posts[i].consulted[j] = posts[i].consulted[k]})
       /\ \A e \in ExecutionsOf(by_created_at(ConversationRows(db, sid))[i]) :
             (e.status = "success") <=> posts[i].success

Persisted(sid, posts) ==
    /\ OneSession(sid, posts)
    /\ Cardinality(ConversationRows(db, sid)) = Len(posts)
    /\ HistoryShows(sid, posts)
    /\ ExecutionsShow(sid, posts)

Deletes(sid) == call'.op = "DELETE /api/chat/session" /\ call'.session_id = sid

\* the rows of the tables that do not belong to the id
OtherSessions(d, sid) == {s \in d.chat_sessions : s.session_id # sid}

OtherConversations(d, sid) == {c \in d.conversations : c.session_id # sid}

OtherExecutions(d, sid) == d.agent_executions \ ExecutionRows(d, ConversationRows(d, sid))

\* the call succeeds, nothing of the id remains and the other rows are as before
DeletedWhole(sid) ==
    /\ result'.returned /\ result'.value.status = 200
    /\ SessionRows(db', sid) = {}
    /\ ConversationRows(db', sid) = {}
    /\ ExecutionRows(db', ConversationRows(db, sid)) = {}
    /\ OtherSessions(db', sid) = OtherSessions(db, sid)
    /\ OtherConversations(db', sid) = OtherConversations(db, sid)
    /\ db'.agent_executions = OtherExecutions(db, sid)

Scored ==
    /\ call.op = "calculate_enhanced_score" /\ result.returned
    /\ call.agent \in Agents

\* the number of the keywords of the list that occur in the lower-cased request
Present(words) ==
    Cardinality({i \in 1..Len(words) : Contains(words[i], Lower(call.user_input.s))})

\* the tenths the weighted count comes to: 3 per high-tier keyword present, 2 per
\* medium-tier, 1 per low-tier
Tenths(a) ==
    3 * Present(ScoreKeywords(a).high) + 2 * Present(ScoreKeywords(a).medium)
    + Present(ScoreKeywords(a).low)

\* the distance of the double [k, q] from k tenths, in tenths of 2^-56
OffBy(k, q) == IF 10 * q >= 6 * k THEN 10 * q - 6 * k ELSE 6 * k - 10 * q

\* the double [k, q] lies on the grid of the doubles of its binade
OnGrid(k, q) == (25 * k + q) % Ulp(k, q) = 0

\* the double nearest to k tenths: what the decimal k/10 denotes
Decimal(k) ==
    [k |-> k,
     q |-> CHOOSE q \in 0..64 :
              /\ OnGrid(k, q)
              /\ \A p \in 0..64 : OnGrid(k, p) => OffBy(k, q) <= OffBy(k, p)]

\* n additions of weight to base
RECURSIVE Accumulate(_, _, _)
Accumulate(n, weight, base) ==
    IF n = 0 THEN base ELSE Accumulate(n - 1, weight, FAdd(base, weight))

\* C22 as stated: the score is the number 0.3 * high + 0.2 * medium + 0.1 * low of
\* the keywords present
C22_Original ==
    Scored => result.value = Decimal(Tenths(call.agent))

\* C22: the score is the sum, accumulated in double arithmetic from 0.0, of 0.3 for
\* each high-tier keyword of the agent present in the lower-cased request, then
\* 0.2 for each medium-tier keyword present, then 0.1 for each low-tier keyword
\* present: it depends on the three counts of the agent's own keywords alone
\* (each keyword at most once), is not capped, is never negative and lies within
\* four units in the last place of the decimal value, which it need not equal
C22_ScoreIsAccumulatedSum ==
    Scored =>
        /\ result.value =
              Accumulate(Present(ScoreKeywords(call.agent).low), F01,
                  Accumulate(Present(ScoreKeywords(call.agent).medium), F02,
                      Accumulate(Present(ScoreKeywords(call.agent).high), F03, FZero)))
        /\ result.value.k = Tenths(call.agent)
        /\ ~FLess(result.value, FZero)
        /\ OffBy(result.value.k, result.value.q)
              <= OffBy(result.value.k, Decimal(result.value.k).q)
                 + 40 * Ulp(result.value.k, result.value.q)

\* a request with several high-tier and medium-tier keywords of the code agent
\* scores above 1.0
C22_Witness ==
    /\ Scored /\ call.agent = "code"
    /\ Present(ScoreKeywords("code").high) >= 2
    /\ Present(ScoreKeywords("code").medium) >= 2
    /\ FLess(F10, result.value)

\* one medium-tier and one low-tier keyword score more than one high-tier keyword
C22_WitnessRounding ==
    /\ Scored
    /\ Present(ScoreKeywords(call.agent).high) = 0
    /\ Present(ScoreKeywords(call.agent).medium) = 1
    /\ Present(ScoreKeywords(call.agent).low) = 1
    /\ FLess(F03, result.value)


(* ---- C23: ties go to the earliest agent of the agent map ---- *)

\* the place of the agent in self.agents: nlp, code, data
PlaceOf(a) == CHOOSE i \in 1..Len(AgentKeys) : AgentKeys[i] = a

\* the candidates of maximal score
Leaders == {a \in Gated : \A b \in Gated : ~FLess(ScoreOf(a), ScoreOf(b))}

\* C23: with no file excerpt and at least one candidate, _route_request returns the
\* candidate that comes first in the order nlp, code, data among the candidates of
\* maximal score, so the same request always gives the same agent
C23_TieByMapOrder ==
    (Routed /\ ~Truthy(call.file_content) /\ Gated # {}) =>
        /\ result.value \in Leaders
        /\ \A b \in Leaders : PlaceOf(result.value) <= PlaceOf(b)

\* the code and the data agent share the maximal score and code is returned
C23_Witness ==
    /\ Routed /\ call.file_content = None
    /\ Leaders = {"code", "data"}
    /\ result.value = "code"


(* ---- C24: the status is advisory and never stuck ---- *)

\* the statuses of a newly built orchestrator
AllIdle == [processing_status |-> [a \in Agents |-> "idle"], agent_status |-> << >>]

\* what the call of process_request returns in a newly built orchestrator
FromIdle(outcome) ==
    process_request(AllIdle, call.user_input, call.file_content, model, apiKey, outcome).result

\* the result but for the snapshot of the statuses it reports
Answer_of(r) ==
    [success |-> r.success, final_response |-> r.final_response,
     selected |-> IF "selected_agent" \in DOMAIN r.metadata
                  THEN r.metadata.selected_agent ELSE ""]

Entry(s, a) ==
    IF AgentName(a) \in DOMAIN s.agent_status THEN s.agent_status[AgentName(a)] ELSE ""

\* C26: when process_request has returned a result that went through an agent, the
\* status and the registry entry of every agent other than the selected one are
\* what they were when the call was made
C26_OthersUntouched ==
    ThroughAgent =>
        \A b \in Agents \ {SelectedKey} :
           /\ processing_status[b] = entry.processing_status[b]
           /\ Entry(st, b) = Entry(entry, b)

\* the call went through one agent while another agent was, and stays, in error
\* and a third has no registry entry yet
C26_Witness ==
    /\ ThroughAgent
    /\ processing_status[SelectedKey] = "idle"
    /\ \E b \in Agents \ {SelectedKey} :
          entry.processing_status[b] = "error" /\ processing_status[b] = "error"
    /\ \E b \in Agents \ {SelectedKey} : Entry(entry, b) = "" /\ Entry(st, b) = ""


(* ---- C25: statuses under concurrent callers ---- *)

\* every caller is out of its call
Quiescent == \A t \in Callers : ~InFlight(t)

\* the statuses a returned process_request result reports in its snapshot
SnapshotStatuses(r) ==
    IF "agent_status" \in DOMAIN r.metadata
    THEN {r.metadata.agent_status.available_agents[i].status : i \in 1..Len(AgentKeys)}
         \cup {r.metadata.agent_status.real_time_status[n] :
                  n \in DOMAIN r.metadata.agent_status.real_time_status}
    ELSE {}

\* C25: with callers interleaved statement by statement, the status field and the
\* registry entry of every agent are idle, processing or error in every state, so
\* is every status in the snapshot of a returned result, and when no caller is in
\* a call no agent's field or registry entry is processing
C25_StatusValid ==
    /\ \A a \in Agents : processing_status[a] \in Status
    /\ \A n \in DOMAIN agent_status : agent_status[n] \in Status
    /\ \A t \in DOMAIN threads :
          threads[t].pc = "returned" /\ threads[t].call.op = "process_request"
             => SnapshotStatuses(threads[t].result) \subseteq Status
    /\ Quiescent =>
          /\ \A a \in Agents : processing_status[a] # "processing"
          /\ \A n \in DOMAIN agent_status : agent_status[n] # "processing"

\* two callers went through the same agent at the same time and both returned: one
\* wrote the field last, the other the registry entry
C25_Witness ==
    /\ Quiescent /\ DOMAIN threads = Callers
    /\ \A t \in Callers : threads[t].call.op = "process_request" /\ threads[t].result.success
    /\ writer["nlp"].field # writer["nlp"].registry
    /\ processing_status["nlp"] = "idle"


(* ---- C27: a fault of process_request sets every agent idle ---- *)

\* caller t is back from a process_request call whose routing raised
Faulted(t) ==
    /\ t \in DOMAIN threads /\ threads[t].pc = "returned"
    /\ threads[t].call.op = "process_request"
    /\ route_request(threads[t].call.user_input, threads[t].call.file_content).exc # ""

\* C27: when a caller is back from a process_request call whose routing raised, the
\* result has success false, the field and the registry entry of every agent were
\* written, and each of them reads idle unless another caller wrote it after this
\* caller did; with no other caller every field and every entry reads idle
C27_FaultSetsIdle ==
    \A t \in Callers :
       Faulted(t) =>
          /\ ~threads[t].result.success
          /\ \A a \in Agents :
                /\ writer[a].field \in Callers /\ writer[a].registry \in Callers
                /\ writer[a].field = t => processing_status[a] = "idle"
                /\ writer[a].registry = t => Entry(st, a) = "idle"
          /\ DOMAIN threads = {t} =>
                \A a \in Agents : processing_status[a] = "idle" /\ Entry(st, a) = "idle"

\* a caller is back from a faulted call while the other caller is inside the process
\* of an agent, between its set_status("processing") and its last set_status, and
\* that agent reads idle
C27_Witness ==
    \E t \in Callers, u \in Callers :
       /\ Faulted(t) /\ InFlight(u) /\ threads[u].pc = "body"
       /\ writer[threads[u].key] = [field |-> t, registry |-> t]
       /\ processing_status[threads[u].key] = "idle"
       /\ Entry(st, threads[u].key) = "idle"

(* ---- C29: the agent's field and its registry entry ---- *)

\* no caller is between the two statements of set_status
NoSetStatusRunning == \A t \in DOMAIN threads : threads[t].pc \notin RegistrySites

\* C29: whenever no caller is inside set_status, the registry entry of every agent
\* that has one equals the agent's status field
C29_Original ==
    NoSetStatusRunning =>
        \A a \in Agents : Entry(st, a) # "" => Entry(st, a) = processing_status[a]


(* ---- C28: the empty excerpt ---- *)

\* the excerpt of the call is the empty string
EmptyExcerpt == call.file_content = Str(<< >>)

\* the agent the file branch of _route_request (lines 560-570) returns
FileRoute(user_input, file_content) ==
    IF AnyIn(DataPatterns, Lower(file_content.s)) /\ AnyIn(AnalysisKeywords, Lower(user_input.s))
    THEN "data"
    ELSE IF AnyIn(CodePatterns, Lower(file_content.s)) THEN "code" ELSE "nlp"

\* the agent keyword scoring (lines 572-580) returns
ScoreRoute(user_input) == route_request(user_input, None).val

\* the context the selected agent's process recorded
ContextOf == result.value.agent_responses[1].metadata.context

\* C28: a process_request call with the empty string as excerpt is routed by keyword
\* scoring and answered by the composer as a call without excerpt, and its result
\* has file_processed true and, when process succeeded, has_file true with no
\* excerpt in the context; a call with no excerpt is routed by scoring and has
\* file_processed false; a call with a non-empty excerpt is routed by the file
\* branch and has file_processed true; a call whose excerpt is a truthy non-string
\* enters the file branch, which raises, and its result has no file_processed
C28_EmptyExcerpt ==
    /\ ThroughAgent /\ EmptyExcerpt =>
          /\ SelectedKey = ScoreRoute(call.user_input)
          /\ result.value.metadata.file_processed
          /\ result.value.success =>
                /\ ContextOf.has_file /\ ContextOf.file_content = Absent
                /\ ComposerUsed =>
                      result.value.final_response =
                         enhanced_fallback_response(AgentName(SelectedKey), call.user_input, None).val
    /\ ThroughAgent /\ ~EmptyExcerpt =>
          /\ result.value.metadata.file_processed = Truthy(call.file_content)
          /\ SelectedKey = IF Truthy(call.file_content)
                           THEN FileRoute(call.user_input, call.file_content)
                           ELSE ScoreRoute(call.user_input)
    /\ (result.returned /\ call.op = "process_request" /\ call.file_content = Int5) =>
          /\ ~ThroughAgent
          /\ "file_processed" \notin DOMAIN result.value.metadata

\* a request with the empty excerpt went to the code agent by its keywords, where a
\* non-empty excerpt without code patterns would have sent it to nlp, and reports a
\* processed file
C28_Witness ==
    /\ ThroughAgent /\ EmptyExcerpt /\ ComposerUsed /\ result.value.success
    /\ SelectedKey = "code"
    /\ FileRoute(call.user_input, Str(<<"x">>)) = "nlp"
    /\ result.value.metadata.file_processed /\ ContextOf.has_file


(* ---- C30: references between the tables of the store ---- *)

\* every conversation's session_id is the session_id of a session
ConversationsHaveSession ==
    \A c \in db.conversations : SessionRows(db, c.session_id) # {}

\* every execution's conversation_id is the id of a conversation
ExecutionsHaveConversation ==
    \A e \in db.agent_executions : \E c \in db.conversations : c.id = e.conversation_id

\* no two sessions have the same session_id
OneSessionPerId ==
    \A s \in db.chat_sessions : SessionRows(db, s.session_id) = {s}

\* C30: after any sequence of POST /chat, POST /api/chat and DELETE calls every
\* conversation names an existing session, every execution names an existing
\* conversation and no session id has two sessions
C30_Original ==
    /\ ConversationsHaveSession
    /\ ExecutionsHaveConversation
    /\ OneSessionPerId


====
